---- MODULE Spec2Model ----
(***************************************************************************)
(* Kafka performance-test tooling: the log parser                          *)
(* (scripts/parse_perf_logs.py) and the results aggregator                 *)
(* (scripts/aggregate_results.py) as state machines.                       *)
(*                                                                         *)
(* Texts are strings; a character is a string of length one.  Python       *)
(* values are records [t, n, e, s]: t is the Python type, n/e the number   *)
(* (an int n, or the float whose shortest decimal literal is n / 10^e),    *)
(* s the characters of a str.                                              *)
(***************************************************************************)
EXTENDS Integers, Sequences, FiniteSets, TLC

VARIABLES
    pc,          \* position of the running operation
    lines,       \* how the text of the file under test was written (input description)
    file,        \* the log file given to a parse function: [name, content, readable]
    ret,         \* what the operation returned
    log_dir,     \* the files of the log directory
    log_files,   \* parse_all_logs: the sorted list the loop runs over
    idx,         \* parse_all_logs: how many files the loop has visited
    all_results, \* parse_all_logs: the records so far; ResultsAggregator.all_results
    producer_df  \* KafkaPerformanceReporter.producer_df: the rows of the DataFrame

batchVars == <<log_dir, log_files, idx, all_results>>
vars == <<pc, lines, file, ret, log_dir, log_files, idx, all_results, producer_df>>

\* no batch is running
NoBatch == log_dir = {} /\ log_files = <<>> /\ idx = 0 /\ all_results = <<>>

(***************************************************************************)
(* Python values                                                           *)
(***************************************************************************)
PyNone == [t |-> "none", n |-> 0, e |-> 0, s |-> ""]
PyInt(n) == [t |-> "int", n |-> n, e |-> 0, s |-> ""]
PyFloat(n, e) == [t |-> "float", n |-> n, e |-> e, s |-> ""]
PyStr(s) == [t |-> "str", n |-> 0, e |-> 0, s |-> s]

\* An ordered dict is a sequence of <<key, value>> pairs with distinct keys.
DictHas(d, k) == \E j \in 1..Len(d) : d[j][1] = k
DictGet(d, k, default) ==
    IF DictHas(d, k) THEN d[CHOOSE j \in 1..Len(d) : d[j][1] = k][2] ELSE default
DictSet(d, k, v) ==
    IF DictHas(d, k)
    THEN [j \in 1..Len(d) |-> IF d[j][1] = k THEN <<k, v>> ELSE d[j]]
    ELSE Append(d, <<k, v>>)
RECURSIVE DictUpdate(_, _)
DictUpdate(d, other) ==
    IF Len(other) = 0 THEN d
    ELSE DictUpdate(DictSet(d, other[1][1], other[1][2]), Tail(other))
DictKeys(d) == {d[j][1] : j \in 1..Len(d)}

(***************************************************************************)
(* Characters and str methods                                              *)
(***************************************************************************)
Ch(s, i) == SubSeq(s, i, i)
DigitChars == "0123456789"
UpperChars == "ABCDEFGHIJKLMNOPQRSTUVWXYZ"
LowerChars == "abcdefghijklmnopqrstuvwxyz"
Digits == {Ch(DigitChars, k) : k \in 1..10}
Uppers == {Ch(UpperChars, k) : k \in 1..26}
Lowers == {Ch(LowerChars, k) : k \in 1..26}
Whitespace == {" ", "\n", "\t", "\r"}
DigitVal == [c \in Digits |-> (CHOOSE k \in 1..10 : Ch(DigitChars, k) = c) - 1]
LowerMap == [c \in Uppers |-> Ch(LowerChars, CHOOSE k \in 1..26 : Ch(UpperChars, k) = c)]
LowerCh(c) == IF c \in Uppers THEN LowerMap[c] ELSE c

\* str.isdigit() on ASCII text
IsDigitStr(s) == Len(s) > 0 /\ \A k \in 1..Len(s) : Ch(s, k) \in Digits

\* `sub in s`
StartsAt(sub, s, i) == i + Len(sub) - 1 <= Len(s) /\ SubSeq(s, i, i + Len(sub) - 1) = sub
Contains(s, sub) == \E i \in 1..(Len(s) + 1) : StartsAt(sub, s, i)
\* `sub in s.lower()` for a lower-case sub
LowerContains(s, sub) ==
    \E i \in 1..(Len(s) - Len(sub) + 1) :
        \A k \in 1..Len(sub) : LowerCh(Ch(s, i + k - 1)) = Ch(sub, k)
StartsWith(s, sub) == StartsAt(sub, s, 1)

\* str.strip()
StrStrip(s) ==
    LET keep == {k \in 1..Len(s) : Ch(s, k) \notin Whitespace}
    IN  IF keep = {} THEN ""
        ELSE SubSeq(s, CHOOSE k \in keep : \A j \in keep : k <= j,
                       CHOOSE k \in keep : \A j \in keep : k >= j)

\* int(s) for a string of digits
RECURSIVE ParseInt(_)
ParseInt(s) ==
    IF Len(s) = 0 THEN 0
    ELSE ParseInt(SubSeq(s, 1, Len(s) - 1)) * 10 + DigitVal[Ch(s, Len(s))]

\* float(s) for a string of digits and dots: ValueError unless it has at
\* least one digit and at most one dot.
DotCount(s) == Cardinality({k \in 1..Len(s) : Ch(s, k) = "."})
FloatOk(s) == DotCount(s) <= 1 /\ \E k \in 1..Len(s) : Ch(s, k) \in Digits
RECURSIVE NormFloat(_, _)
NormFloat(n, e) == IF e > 0 /\ n % 10 = 0 THEN NormFloat(n \div 10, e - 1) ELSE PyFloat(n, e)
ParseFloat(s) ==
    LET dots == {k \in 1..Len(s) : Ch(s, k) = "."}
    IN  IF dots = {} THEN PyFloat(ParseInt(s), 0)
        ELSE LET d == CHOOSE k \in dots : TRUE
             IN  NormFloat(ParseInt(SubSeq(s, 1, d - 1) \o SubSeq(s, d + 1, Len(s))),
                           Len(s) - d)

(***************************************************************************)
(* Regular expressions (module re).  A pattern is a sequence of elements.  *)
(* ReMatches is every way the pattern matches at a position, each with the *)
(* choices it made: at a greedy repetition how many characters it gave     *)
(* back, at an optional group whether it skipped it, at an alternation     *)
(* which branch it took.  The backtracking matcher returns the way whose   *)
(* choices come first in lexicographic order.                              *)
(***************************************************************************)
Lit(s) == <<[t |-> "lit", s |-> s]>>
Rep(c, min, max) == <<[t |-> "rep", c |-> c, min |-> min, max |-> max]>>
Plus(c) == Rep(c, 1, -1)
Star(c) == Rep(c, 0, -1)
Opt(p) == <<[t |-> "opt", p |-> p]>>
Alt(ps) == <<[t |-> "alt", ps |-> ps]>>
Grp(g, p) == <<[t |-> "grp", g |-> g, p |-> p]>>

\* character classes: \d, \s, \w, [\d.], [_-], and . (anything but a newline)
InClass(c, cls) ==
    CASE cls = "d" -> c \in Digits
      [] cls = "s" -> c \in Whitespace
      [] cls = "w" -> c \in Digits \cup Uppers \cup Lowers \cup {"_"}
      [] cls = "n" -> c \in Digits \cup {"."}
      [] cls = "sep" -> c \in {"_", "-"}
      [] cls = "." -> c # "\n"

MaxGroups == 10
NoCaps == [g \in 1..MaxGroups |-> <<0, 0>>]
NoMatch == [ok |-> FALSE, start |-> 0, end |-> 0, caps |-> NoCaps]

\* length of the longest run of class characters at i, at most max (-1: unbounded);
\* the text is read eight characters at a time
RECURSIVE RunLen(_, _, _, _)
RunLen(cls, s, i, max) ==
    LET limit == IF max < 0 \/ i + max - 1 > Len(s) THEN Len(s) ELSE i + max - 1
        last == IF i + 7 < limit THEN i + 7 ELSE limit
        stop == {k \in i..last : ~InClass(Ch(s, k), cls)}
    IN  IF stop # {} THEN (CHOOSE k \in stop : \A j \in stop : k <= j) - i
        ELSE IF last >= limit THEN last - i + 1
        ELSE 8 + RunLen(cls, s, i + 8, IF max < 0 THEN max ELSE max - 8)

LitAt(l, s, i, ic) ==
    /\ i + Len(l) - 1 <= Len(s)
    /\ \A k \in 1..Len(l) :
          IF ic THEN LowerCh(Ch(s, i + k - 1)) = LowerCh(Ch(l, k))
          ELSE Ch(s, i + k - 1) = Ch(l, k)

Way(end, caps, key) == [end |-> end, caps |-> caps, key |-> key]
JoinWays(a, b) ==
    Way(b.end,
        [g \in 1..MaxGroups |-> IF b.caps[g][2] > 0 THEN b.caps[g] ELSE a.caps[g]],
        a.key \o b.key)

RECURSIVE ReRange(_, _, _, _, _, _)
RECURSIVE ReElem(_, _, _, _)
\* the ways elements lo..hi of the pattern match at i
ReRange(pat, lo, hi, s, i, ic) ==
    IF lo > hi THEN {Way(i, NoCaps, <<>>)}
    ELSE IF lo = hi THEN ReElem(pat[lo], s, i, ic)
    ELSE UNION {{JoinWays(a, b) : b \in ReRange(pat, (lo + hi) \div 2 + 1, hi, s, a.end, ic)} :
                 a \in ReRange(pat, lo, (lo + hi) \div 2, s, i, ic)}
ReElem(h, s, i, ic) ==
    CASE h.t = "lit" -> IF LitAt(h.s, s, i, ic) THEN {Way(i + Len(h.s), NoCaps, <<>>)} ELSE {}
      [] h.t = "rep" ->
            LET run == RunLen(h.c, s, i, h.max)
            IN  {Way(i + n, NoCaps, <<run - n>>) : n \in h.min..run}
      [] h.t = "opt" ->
            {Way(a.end, a.caps, <<0>> \o a.key) : a \in ReRange(h.p, 1, Len(h.p), s, i, ic)}
            \cup {Way(i, NoCaps, <<1>>)}
      [] h.t = "alt" ->
            UNION {{Way(a.end, a.caps, <<k>> \o a.key) :
                       a \in ReRange(h.ps[k], 1, Len(h.ps[k]), s, i, ic)} :
                   k \in 1..Len(h.ps)}
      [] h.t = "grp" ->
            {Way(a.end, [a.caps EXCEPT ![h.g] = <<i, a.end>>], a.key) :
                a \in ReRange(h.p, 1, Len(h.p), s, i, ic)}
ReMatches(pat, s, i, ic) == ReRange(pat, 1, Len(pat), s, i, ic)

\* the order in which backtracking tries the ways
KeyBefore(x, y) ==
    \E k \in 1..Len(x) :
        /\ k <= Len(y)
        /\ x[k] < y[k]
        /\ \A j \in 1..(k - 1) : x[j] = y[j]

\* the way backtracking finds first, as a match object
FirstWay(ways, i) ==
    IF ways = {} THEN NoMatch
    ELSE LET w == CHOOSE x \in ways : \A y \in ways : y = x \/ KeyBefore(x.key, y.key)
         IN  [ok |-> TRUE, start |-> i, end |-> w.end, caps |-> w.caps]
\* pattern.match at position i
ReMatch(pat, s, i, ic) == FirstWay(ReMatches(pat, s, i, ic), i)

\* whether the first element of the pattern can match at i (cheap to decide)
RECURSIVE CanStart(_, _, _, _)
CanStart(pat, s, i, ic) ==
    IF Len(pat) = 0 THEN TRUE
    ELSE CASE pat[1].t = "lit" -> LitAt(pat[1].s, s, i, ic)
           [] pat[1].t = "rep" /\ pat[1].min > 0 -> i <= Len(s) /\ InClass(Ch(s, i), pat[1].c)
           [] pat[1].t = "grp" -> CanStart(pat[1].p, s, i, ic)
           [] OTHER -> TRUE

\* the match at the leftmost position in lo..hi where the pattern matches
RECURSIVE FirstHit(_, _, _, _, _)
FirstHit(pat, s, lo, hi, ic) ==
    IF lo > hi THEN NoMatch
    ELSE IF lo = hi THEN (IF CanStart(pat, s, lo, ic) THEN ReMatch(pat, s, lo, ic) ELSE NoMatch)
    ELSE LET left == FirstHit(pat, s, lo, (lo + hi) \div 2, ic)
         IN  IF left.ok THEN left ELSE FirstHit(pat, s, (lo + hi) \div 2 + 1, hi, ic)

\* pattern.search from position i: the leftmost match
ReSearch(pat, s, i, ic) == FirstHit(pat, s, i, Len(s) + 1, ic)

\* list(pattern.finditer(s)): the non-overlapping matches, left to right
RECURSIVE FindIter(_, _, _)
RECURSIVE FindMore(_, _, _)
FindIter(pat, s, i) == FindMore(pat, s, ReSearch(pat, s, i, FALSE))
\* the match m, then the matches after it
FindMore(pat, s, m) ==
    IF ~m.ok THEN <<>>
    ELSE <<m>> \o FindIter(pat, s, IF m.end = m.start THEN m.end + 1 ELSE m.end)

\* match.group(g): the captured text, None when the group took no part
HasGroup(m, g) == m.caps[g][2] > 0
Group(m, s, g) == SubSeq(s, m.caps[g][1], m.caps[g][2] - 1)

(***************************************************************************)
(* More str methods                                                        *)
(***************************************************************************)
\* s.split(sep) for a one-character separator
RECURSIVE StrSplit(_, _)
StrSplit(s, sep) ==
    LET at == {k \in 1..Len(s) : Ch(s, k) = sep}
    IN  IF at = {} THEN <<s>>
        ELSE LET k == CHOOSE x \in at : \A y \in at : x <= y
             IN  <<SubSeq(s, 1, k - 1)>> \o StrSplit(SubSeq(s, k + 1, Len(s)), sep)

\* s.split(sep, 1)
StrSplit1(s, sep) ==
    LET at == {k \in 1..Len(s) : Ch(s, k) = sep}
    IN  IF at = {} THEN <<s>>
        ELSE LET k == CHOOSE x \in at : \A y \in at : x <= y
             IN  <<SubSeq(s, 1, k - 1), SubSeq(s, k + 1, Len(s))>>

\* s.replace(a, b) for one-character a and a string b
RECURSIVE StrReplace(_, _, _)
StrReplace(s, a, b) ==
    IF Len(s) = 0 THEN ""
    ELSE (IF Ch(s, 1) = a THEN b ELSE Ch(s, 1)) \o StrReplace(Tail(s), a, b)

(***************************************************************************)
(* KafkaPerformanceParser: the patterns                                    *)
(***************************************************************************)
ProducerPrefix ==
    Grp(1, Plus("d")) \o Plus("s") \o Lit("records sent,") \o Plus("s")
    \o Grp(2, Plus("n")) \o Plus("s") \o Lit("records/sec") \o Plus("s")
    \o Lit("(") \o Grp(3, Plus("n")) \o Plus("s") \o Lit("MB/sec),") \o Plus("s")
    \o Grp(4, Plus("n")) \o Plus("s") \o Lit("ms avg latency,") \o Plus("s")
    \o Grp(5, Plus("n")) \o Plus("s") \o Lit("ms max latency")

PercentileGroup(g, label) ==
    Lit(",") \o Plus("s") \o Grp(g, Plus("d")) \o Plus("s") \o Lit(label)
Percentile(g, label) == Opt(PercentileGroup(g, label))

ProducerFinalNested ==
    ProducerPrefix
    \o Opt(PercentileGroup(6, "ms 50th")
           \o Opt(PercentileGroup(7, "ms 95th")
                  \o Opt(PercentileGroup(8, "ms 99th")
                         \o Opt(PercentileGroup(9, "ms 99.9th")))))
ProducerFinalWithMedian ==
    ProducerPrefix
    \o PercentileGroup(6, "ms 50th") \o Percentile(7, "ms 95th")
    \o Percentile(8, "ms 99th") \o Percentile(9, "ms 99.9th")
PRODUCER_FINAL_PATTERN ==
    ProducerPrefix
    \o Percentile(6, "ms 50th") \o Percentile(7, "ms 95th")
    \o Percentile(8, "ms 99th") \o Percentile(9, "ms 99.9th")

PRODUCER_PROGRESS_PATTERN == ProducerPrefix \o Lit(".")

Timestamp ==
    Rep("d", 4, 4) \o Lit("-") \o Rep("d", 2, 2) \o Lit("-") \o Rep("d", 2, 2)
    \o Plus("s") \o Rep("d", 2, 2) \o Lit(":") \o Rep("d", 2, 2) \o Lit(":")
    \o Rep("d", 2, 2) \o Lit(":") \o Rep("d", 3, 3)

Comma == Lit(",") \o Star("s")

CONSUMER_PATTERN ==
    Grp(1, Timestamp) \o Comma \o Grp(2, Timestamp) \o Comma
    \o Grp(3, Plus("n")) \o Comma \o Grp(4, Plus("n")) \o Comma
    \o Grp(5, Plus("d")) \o Comma \o Grp(6, Plus("n")) \o Comma
    \o Grp(7, Plus("d")) \o Comma \o Grp(8, Plus("d")) \o Comma
    \o Grp(9, Plus("n")) \o Comma \o Grp(10, Plus("n"))

Labeled(label, cls) ==
    Lit("#") \o Star("s") \o Lit(label) \o Star("s") \o Grp(1, Plus(cls))

CONFIG_PATTERN == Labeled("Configuration:", ".")
RECORD_SIZE_PATTERN == Labeled("Record Size:", "d")
NUM_RECORDS_PATTERN == Labeled("Num Records:", "d")
SCENARIO_PATTERN ==
    Lit("#") \o Star("s") \o Alt(<<Lit("Producer"), Lit("Consumer")>>) \o Lit(" ")
    \o Opt(Lit("Performance ")) \o Lit("Test") \o Star("s") \o Lit("-") \o Star("s")
    \o Grp(1, Plus("."))
TEST_RUN_PATTERN == Labeled("Test Run:", ".")
HOST_PATTERN == Labeled("Host:", ".")
DATE_PATTERN == Labeled("Date:", ".")

(***************************************************************************)
(* KafkaPerformanceParser._extract_config_from_content                     *)
(***************************************************************************)
CoerceConfigValueIntOnly(value) ==
    IF IsDigitStr(value) THEN PyInt(ParseInt(value)) ELSE PyStr(value)
\* the type conversion of one configuration value
CoerceConfigValue(value) ==
    IF IsDigitStr(value) THEN PyInt(ParseInt(value))
    ELSE IF IsDigitStr(StrReplace(value, ".", "")) /\ FloatOk(value) THEN ParseFloat(value)
    ELSE PyStr(value)

\* one labeled field: config[key] = conv(match.group(1)) when the pattern is found
SetMatched(config, content, m, key, asInt) ==
    IF ~m.ok THEN config
    ELSE DictSet(config, key,
                 IF asInt THEN PyInt(ParseInt(Group(m, content, 1)))
                 ELSE PyStr(StrStrip(Group(m, content, 1))))
SetLabeled(config, content, pat, key, asInt) ==
    SetMatched(config, content, ReSearch(pat, content, 1, FALSE), key, asInt)

RECURSIVE SetConfigItems(_, _)
SetConfigItems(config, items) ==
    IF Len(items) = 0 THEN config
    ELSE LET item == StrStrip(items[1])
             kv == StrSplit1(item, "=")
         IN  SetConfigItems(
                 IF Contains(item, "=")
                 THEN DictSet(config, StrReplace(StrStrip(kv[1]), ".", "_"),
                              CoerceConfigValue(StrStrip(kv[2])))
                 ELSE config,
                 Tail(items))

\* the key=value items of the Configuration line, when there is one
SetConfigLine(config, content, m) ==
    IF m.ok THEN SetConfigItems(config, StrSplit(Group(m, content, 1), ",")) ELSE config
ExtractConfigFromContent(content) ==
    LET c1 == SetLabeled(<<>>, content, SCENARIO_PATTERN, "scenario", FALSE)
        c2 == SetLabeled(c1, content, TEST_RUN_PATTERN, "test_run", FALSE)
        c3 == SetLabeled(c2, content, HOST_PATTERN, "host", FALSE)
        c4 == SetLabeled(c3, content, DATE_PATTERN, "date", FALSE)
        c5 == SetLabeled(c4, content, RECORD_SIZE_PATTERN, "record_size", TRUE)
        c6 == SetLabeled(c5, content, NUM_RECORDS_PATTERN, "num_records", TRUE)
    IN  SetConfigLine(c6, content, ReSearch(CONFIG_PATTERN, content, 1, FALSE))

(***************************************************************************)
(* KafkaPerformanceParser._extract_config_from_filename                    *)
(***************************************************************************)
\* Path.stem: the name without its last suffix
Stem(name) ==
    LET dots == {k \in 2..Len(name) : Ch(name, k) = "."}
    IN  IF dots = {} \/ Ch(name, Len(name)) = "." THEN name
        ELSE SubSeq(name, 1, (CHOOSE k \in dots : \A j \in dots : k >= j) - 1)

Codecs == <<Lit("none"), Lit("snappy"), Lit("lz4"), Lit("zstd"), Lit("gzip")>>

\* the patterns dict, in its order
FilenamePatterns ==
    << <<"acks", Lit("acks") \o Rep("sep", 0, 1) \o Grp(1, Plus("w"))>>,
       <<"batch", Lit("batch") \o Rep("sep", 0, 1) \o Grp(1, Plus("d"))>>,
       <<"linger", Lit("linger") \o Rep("sep", 0, 1) \o Grp(1, Plus("d"))>>,
       <<"size", Lit("size") \o Rep("sep", 0, 1) \o Grp(1, Plus("d"))>>,
       <<"compression", Grp(1, Alt(Codecs))>>,
       <<"fetch", Lit("fetch") \o Rep("sep", 0, 1) \o Grp(1, Plus("d"))>>,
       <<"poll", Lit("poll") \o Rep("sep", 0, 1) \o Grp(1, Plus("d"))>> >>

CoerceFilenameValue(value) ==
    IF IsDigitStr(value) THEN PyInt(ParseInt(value)) ELSE PyStr(value)

\* config[key] = the coerced group 1, when the pattern is found
SetFilenameField(config, filename, m, key) ==
    IF m.ok THEN DictSet(config, key, CoerceFilenameValue(Group(m, filename, 1))) ELSE config
RECURSIVE SetFilenameFields(_, _, _)
SetFilenameFields(config, filename, k) ==
    IF k > Len(FilenamePatterns) THEN config
    ELSE SetFilenameFields(
             SetFilenameField(config, filename,
                              ReSearch(FilenamePatterns[k][2], filename, 1, TRUE),
                              FilenamePatterns[k][1]),
             filename, k + 1)

\* the scenario: the second part of a name whose first part is the test type
SetScenario(config, parts, test_type) ==
    IF Len(parts) >= 2 /\ parts[1] = test_type
    THEN DictSet(config, "scenario", PyStr(parts[2]))
    ELSE config
ExtractConfigFromFilename(name, test_type) ==
    SetScenario(SetFilenameFields(<<>>, Stem(name), 1), StrSplit(Stem(name), "_"), test_type)

(***************************************************************************)
(* KafkaPerformanceParser.parse_producer_log / parse_consumer_log          *)
(***************************************************************************)
None == [kind |-> "None"]
Raised == [kind |-> "raise"]
Record(test_type, config, metrics, name) ==
    [kind |-> "record", test_type |-> test_type,
     scenario |-> DictGet(config, "scenario", PyStr("unknown")),
     configuration |-> config, metrics |-> metrics, filename |-> name]

\* the header-comment configuration, then the filename's applied over it
MergedConfigHeaderWins(f, test_type) ==
    DictUpdate(ExtractConfigFromFilename(f.name, test_type), ExtractConfigFromContent(f.content))
MergedConfig(f, test_type) ==
    DictUpdate(ExtractConfigFromContent(f.content), ExtractConfigFromFilename(f.name, test_type))

OptInt(m, s, g) == IF HasGroup(m, g) THEN PyInt(ParseInt(Group(m, s, g))) ELSE PyNone

\* the match the producer metrics are taken from
ChosenFinalFirst(final_matches) == final_matches[1]
ChosenFinal(final_matches) == final_matches[Len(final_matches)]

ProducerMetrics(m, s, final) ==
    [records_sent |-> PyInt(ParseInt(Group(m, s, 1))),
     throughput_rps |-> ParseFloat(Group(m, s, 2)),
     throughput_mb |-> ParseFloat(Group(m, s, 3)),
     avg_latency_ms |-> ParseFloat(Group(m, s, 4)),
     max_latency_ms |-> ParseFloat(Group(m, s, 5)),
     p50_ms |-> IF final THEN OptInt(m, s, 6) ELSE PyNone,
     p95_ms |-> IF final THEN OptInt(m, s, 7) ELSE PyNone,
     p99_ms |-> IF final THEN OptInt(m, s, 8) ELSE PyNone,
     p999_ms |-> IF final THEN OptInt(m, s, 9) ELSE PyNone]

\* float() raises ValueError on a captured number that is no float literal
FloatsOk(m, s, groups) == \A g \in groups : FloatOk(Group(m, s, g))

\* the record made of a match: of the final pattern, or of the progress pattern
ProducerRecord(f, config, match, final) ==
    IF ~FloatsOk(match, f.content, {2, 3, 4, 5}) THEN Raised
    ELSE Record("producer", config, ProducerMetrics(match, f.content, final), f.name)
\* the last final match; without one the last progress match; without one, None
ProducerResultFirstProgress(f, config, final_matches, progress_matches) ==
    IF Len(final_matches) > 0
    THEN ProducerRecord(f, config, ChosenFinal(final_matches), TRUE)
    ELSE IF Len(progress_matches) > 0
    THEN ProducerRecord(f, config, progress_matches[1], FALSE)
    ELSE None
ProducerResult(f, config, final_matches, progress_matches) ==
    IF Len(final_matches) > 0
    THEN ProducerRecord(f, config, ChosenFinal(final_matches), TRUE)
    ELSE IF Len(progress_matches) > 0
    THEN ProducerRecord(f, config, progress_matches[Len(progress_matches)], FALSE)
    ELSE None
parse_producer_log(f) ==
    IF ~f.readable THEN None
    ELSE ProducerResult(f, MergedConfig(f, "producer"),
                        FindIter(PRODUCER_FINAL_PATTERN, f.content, 1),
                        FindIter(PRODUCER_PROGRESS_PATTERN, f.content, 1))

\* a line the loop skips: the CSV header, a comment, or nothing
SkippedNoComment(line) == StartsWith(line, "start.time") \/ Len(line) = 0
Skipped(line) == StartsWith(line, "start.time") \/ StartsWith(line, "#") \/ Len(line) = 0

\* the for loop over content.split('\n') from line k on: the first line that is
\* not skipped and matches, with its match
RECURSIVE ConsumerScan(_, _)
RECURSIVE ConsumerLine(_, _, _, _)
ConsumerScan(ls, k) ==
    IF k > Len(ls) THEN [found |-> FALSE, line |-> "", m |-> NoMatch]
    ELSE ConsumerLine(ls, k, StrStrip(ls[k]),
                      ReSearch(CONSUMER_PATTERN, StrStrip(ls[k]), 1, FALSE))
\* line k, stripped, and its match
ConsumerLine(ls, k, line, m) ==
    IF Skipped(line) \/ ~m.ok THEN ConsumerScan(ls, k + 1)
    ELSE [found |-> TRUE, line |-> line, m |-> m]

ConsumerMetrics(m, s) ==
    [start_time |-> PyStr(Group(m, s, 1)),
     end_time |-> PyStr(Group(m, s, 2)),
     data_consumed_mb |-> ParseFloat(Group(m, s, 3)),
     throughput_mb_sec |-> ParseFloat(Group(m, s, 4)),
     num_messages |-> PyInt(ParseInt(Group(m, s, 5))),
     throughput_msg_sec |-> ParseFloat(Group(m, s, 6)),
     rebalance_time_ms |-> PyInt(ParseInt(Group(m, s, 7))),
     fetch_time_ms |-> PyInt(ParseInt(Group(m, s, 8))),
     fetch_mb_sec |-> ParseFloat(Group(m, s, 9)),
     fetch_msg_sec |-> ParseFloat(Group(m, s, 10))]

\* the record made of the line the loop stopped at; None when it found none
ConsumerResult(f, config, hit) ==
    IF ~hit.found THEN None
    ELSE IF ~FloatsOk(hit.m, hit.line, {3, 4, 6, 9, 10}) THEN Raised
    ELSE Record("consumer", config, ConsumerMetrics(hit.m, hit.line), f.name)
parse_consumer_log(f) ==
    IF ~f.readable THEN None
    ELSE ConsumerResult(f, MergedConfig(f, "consumer"),
                        ConsumerScan(StrSplit(f.content, "\n"), 1))


(***************************************************************************)
(* Producer logs under test.  A line is written from a descriptor: the     *)
(* numbers of a profile, and the percentile suffixes it carries.           *)
(***************************************************************************)
MaxLines == 2

Profiles == {"A", "B"}
\* the literals of a profile as the benchmark tool prints them
BaseLit(p) ==
    IF p = "A" THEN <<"1000000", "14637.65", "28.59", "3182.27", "3613.00">>
    ELSE <<"500", "12.5", "0.5", "7", "9.0">>
PctLit(p) == IF p = "A" THEN <<"3289", "3467", "3568", "3603">> ELSE <<"3", "4", "5", "0">>
\* the numbers those literals denote
BaseVal(p) ==
    IF p = "A"
    THEN <<PyInt(1000000), PyFloat(1463765, 2), PyFloat(2859, 2), PyFloat(318227, 2),
           PyFloat(3613, 0)>>
    ELSE <<PyInt(500), PyFloat(125, 1), PyFloat(5, 1), PyFloat(7, 0), PyFloat(9, 0)>>
PctVal(p) ==
    IF p = "A" THEN <<PyInt(3289), PyInt(3467), PyInt(3568), PyInt(3603)>>
    ELSE <<PyInt(3), PyInt(4), PyInt(5), PyInt(0)>>
PctLabel == <<"ms 50th", "ms 95th", "ms 99th", "ms 99.9th">>

SummaryLines ==
    [form : {"summary"}, p : {"A"}, pcts : SUBSET (1..4)]
    \cup [form : {"summary"}, p : {"B"}, pcts : {{}, {2}, {1, 3}, 1..4}]
\* a line that is no result, and a result line whose rate is no float literal
OtherLines == {[form |-> "junk", p |-> "A", pcts |-> {}],
               [form |-> "bad", p |-> "A", pcts |-> {}]}
ProducerLines == SummaryLines \cup OtherLines

PrefixText(b) ==
    b[1] \o " records sent, " \o b[2] \o " records/sec (" \o b[3] \o " MB/sec), "
    \o b[4] \o " ms avg latency, " \o b[5] \o " ms max latency"
PctText(l, j) == IF j \in l.pcts THEN ", " \o PctLit(l.p)[j] \o " " \o PctLabel[j] ELSE ""
LineText(l) ==
    CASE l.form = "junk" -> "Starting producer test\n"
      [] l.form = "bad" -> PrefixText([BaseLit(l.p) EXCEPT ![2] = "1.2.3"]) \o ".\n"
      [] l.form = "summary" ->
            PrefixText(BaseLit(l.p)) \o PctText(l, 1) \o PctText(l, 2) \o PctText(l, 3)
            \o PctText(l, 4) \o ".\n"
RECURSIVE Render(_)
Render(ls) == IF Len(ls) = 0 THEN "" ELSE LineText(ls[1]) \o Render(Tail(ls))

\* the texts under test: any line last, after lines of a few kinds
LineSeqs(earlier, last) ==
    {<<>>} \cup UNION {{Append(e, l) : e \in [1..(n - 1) -> earlier], l \in last} :
                       n \in 1..MaxLines}

EarlierProducerLines ==
    OtherLines \cup {[form |-> "summary", p |-> "A", pcts |-> 1..4],
                     [form |-> "summary", p |-> "B", pcts |-> {2}],
                     [form |-> "summary", p |-> "B", pcts |-> {}]}

InitProducer ==
    /\ lines \in LineSeqs(EarlierProducerLines, ProducerLines)
    /\ file = [name |-> "producer_run.log", content |-> Render(lines), readable |-> TRUE]
    /\ pc = "start"
    /\ ret = None
    /\ NoBatch
    /\ producer_df = <<>>

ParseProducerLog ==
    /\ pc = "start"
    /\ ret' = parse_producer_log(file)
    /\ pc' = "done"
    /\ UNCHANGED <<lines, file, producer_df>>
    /\ UNCHANGED batchVars

NextProducer == ParseProducerLog
SpecProducer == InitProducer /\ [][NextProducer]_vars

\* what a summary line says, as the metrics of a record
ExpectedProducer(l) ==
    [records_sent |-> BaseVal(l.p)[1], throughput_rps |-> BaseVal(l.p)[2],
     throughput_mb |-> BaseVal(l.p)[3], avg_latency_ms |-> BaseVal(l.p)[4],
     max_latency_ms |-> BaseVal(l.p)[5],
     p50_ms |-> IF 1 \in l.pcts THEN PctVal(l.p)[1] ELSE PyNone,
     p95_ms |-> IF 2 \in l.pcts THEN PctVal(l.p)[2] ELSE PyNone,
     p99_ms |-> IF 3 \in l.pcts THEN PctVal(l.p)[3] ELSE PyNone,
     p999_ms |-> IF 4 \in l.pcts THEN PctVal(l.p)[4] ELSE PyNone]
PctField(m, j) ==
    CASE j = 1 -> m.p50_ms [] j = 2 -> m.p95_ms [] j = 3 -> m.p99_ms [] j = 4 -> m.p999_ms
\* the lines that hold a final-summary match, and the last of them
SummaryMatches == {k \in 1..Len(lines) : lines[k].form \in {"summary", "bad"}}
LastSummary == lines[CHOOSE k \in SummaryMatches : \A j \in SummaryMatches : j <= k]

\* C1: with two or more final-summary matches in the text, the outcome is that of
\* the last match alone: its nine metrics, none from an earlier match (and the
\* ValueError of its own numbers when they are no float literals).
C1_LastMatchWins ==
    (pc = "done" /\ Cardinality(SummaryMatches) >= 2) =>
        IF LastSummary.form = "bad" THEN ret = Raised
        ELSE ret.kind = "record" /\ ret.metrics = ExpectedProducer(LastSummary)
C1_Witness ==
    /\ pc = "done"
    /\ Len(lines) = 2
    /\ lines[1] = [form |-> "summary", p |-> "A", pcts |-> 1..4]
    /\ lines[2] = [form |-> "summary", p |-> "B", pcts |-> {2}]
    /\ ret.kind = "record"
    /\ ret.metrics = ExpectedProducer(lines[2])
    /\ ret.metrics.p50_ms = PyNone

\* C2: in the chosen final-summary match each percentile is the number written for
\* it when its suffix is there and null when it is not, whatever the other three
\* are; with all four there the nine metrics are the numbers of the line.
C2_PercentilesIndependent ==
    (pc = "done" /\ SummaryMatches # {} /\ LastSummary.form = "summary") =>
        /\ ret.kind = "record"
        /\ \A j \in 1..4 :
              PctField(ret.metrics, j) =
                  IF j \in LastSummary.pcts THEN PctVal(LastSummary.p)[j] ELSE PyNone
        /\ LastSummary.pcts = 1..4 => ret.metrics = ExpectedProducer(LastSummary)
C2_Witness ==
    /\ pc = "done"
    /\ Len(lines) = 1
    /\ lines[1] = [form |-> "summary", p |-> "A", pcts |-> {2, 4}]
    /\ ret.kind = "record"
    /\ ret.metrics.p50_ms = PyNone /\ ret.metrics.p95_ms = PyInt(3467)
    /\ ret.metrics.p99_ms = PyNone /\ ret.metrics.p999_ms = PyInt(3603)

(***************************************************************************)
(* Consumer logs under test                                                *)
(***************************************************************************)
CsvLit(p) ==
    IF p = "A"
    THEN <<"2024-08-28 12:00:45:269", "2024-08-28 12:01:53:199", "1953.1250", "28.7520",
           "1000000", "14721.0364", "3330", "64600", "30.2341", "15479.8762">>
    ELSE <<"2024-01-02 03:04:05:006", "2024-01-02 03:04:06:007", "1.5", "0.5",
           "20", "7", "0", "9", "2.5", "8.0">>
ExpectedConsumer(p) ==
    IF p = "A"
    THEN [start_time |-> PyStr("2024-08-28 12:00:45:269"),
          end_time |-> PyStr("2024-08-28 12:01:53:199"),
          data_consumed_mb |-> PyFloat(1953125, 3), throughput_mb_sec |-> PyFloat(28752, 3),
          num_messages |-> PyInt(1000000), throughput_msg_sec |-> PyFloat(147210364, 4),
          rebalance_time_ms |-> PyInt(3330), fetch_time_ms |-> PyInt(64600),
          fetch_mb_sec |-> PyFloat(302341, 4), fetch_msg_sec |-> PyFloat(154798762, 4)]
    ELSE [start_time |-> PyStr("2024-01-02 03:04:05:006"),
          end_time |-> PyStr("2024-01-02 03:04:06:007"),
          data_consumed_mb |-> PyFloat(15, 1), throughput_mb_sec |-> PyFloat(5, 1),
          num_messages |-> PyInt(20), throughput_msg_sec |-> PyFloat(7, 0),
          rebalance_time_ms |-> PyInt(0), fetch_time_ms |-> PyInt(9),
          fetch_mb_sec |-> PyFloat(25, 1), fetch_msg_sec |-> PyFloat(8, 0)]

CsvText(c) ==
    c[1] \o ", " \o c[2] \o ", " \o c[3] \o ", " \o c[4] \o ", " \o c[5] \o ", " \o c[6]
    \o ", " \o c[7] \o ", " \o c[8] \o ", " \o c[9] \o ", " \o c[10]
CsvHeader ==
    "start.time, end.time, data.consumed.in.MB, MB.sec, data.consumed.in.nMsg, nMsg.sec, "
    \o "rebalance.time.ms, fetch.time.ms, fetch.MB.sec, fetch.nMsg.sec"

ConsumerLines ==
    {[form |-> "data", p |-> "A"], [form |-> "data", p |-> "B"],
     [form |-> "indented", p |-> "B"], [form |-> "prefixed", p |-> "B"],
     [form |-> "commented", p |-> "A"], [form |-> "header", p |-> "A"],
     [form |-> "blank", p |-> "A"], [form |-> "junk", p |-> "A"],
     [form |-> "bad", p |-> "A"]}
ConsumerLineText(l) ==
    CASE l.form = "data" -> CsvText(CsvLit(l.p)) \o "\n"
      [] l.form = "indented" -> "  \t" \o CsvText(CsvLit(l.p)) \o " \n"
      [] l.form = "prefixed" -> "INFO " \o CsvText(CsvLit(l.p)) \o "\n"
      [] l.form = "commented" -> " # " \o CsvText(CsvLit(l.p)) \o "\n"
      [] l.form = "header" -> CsvHeader \o "\n"
      [] l.form = "blank" -> "  \n"
      [] l.form = "junk" -> "WARNING: 3 partitions, 2024-08-28 12:00:45:269\n"
      [] l.form = "bad" -> CsvText([CsvLit(l.p) EXCEPT ![4] = "1.2.3"]) \o "\n"
RECURSIVE RenderConsumer(_)
RenderConsumer(ls) ==
    IF Len(ls) = 0 THEN "" ELSE ConsumerLineText(ls[1]) \o RenderConsumer(Tail(ls))

InitConsumer ==
    /\ lines \in LineSeqs(ConsumerLines, ConsumerLines)
    /\ file = [name |-> "consumer_run.log", content |-> RenderConsumer(lines),
               readable |-> TRUE]
    /\ pc = "start"
    /\ ret = None
    /\ NoBatch
    /\ producer_df = <<>>

ParseConsumerLog ==
    /\ pc = "start"
    /\ ret' = parse_consumer_log(file)
    /\ pc' = "done"
    /\ UNCHANGED <<lines, file, producer_df>>
    /\ UNCHANGED batchVars

NextConsumer == ParseConsumerLog
SpecConsumer == InitConsumer /\ [][NextConsumer]_vars

\* the lines that are neither header, comment nor blank and hold the ten fields
CsvMatches == {k \in 1..Len(lines) : lines[k].form \in {"data", "indented", "prefixed", "bad"}}
FirstCsv == lines[CHOOSE k \in CsvMatches : \A j \in CsvMatches : k <= j]

\* C3: the consumer metrics are those of the first line, in order, that is not
\* blank, header or comment and matches the ten-field pattern; later lines have no
\* influence (a first match whose numbers are no float literals ends the parse with
\* its ValueError), and without such a line there is no record.
C3_FirstMatchWins ==
    pc = "done" =>
        IF CsvMatches = {} THEN ret = None
        ELSE IF FirstCsv.form = "bad" THEN ret = Raised
        ELSE ret.kind = "record" /\ ret.metrics = ExpectedConsumer(FirstCsv.p)
C3_Witness ==
    /\ pc = "done"
    /\ Len(lines) = 2
    /\ lines[1].form = "commented"
    /\ lines[2] = [form |-> "indented", p |-> "B"]
    /\ ret.kind = "record"
    /\ ret.metrics = ExpectedConsumer("B")

(***************************************************************************)
(* Logs with header comments and configuration-bearing names               *)
(***************************************************************************)
HeaderText ==
    <<"# Producer Test - nightly\n",
      "# Configuration: acks=all, batch.size=16384, size=7\n",
      "# Record Size: 512\n">>
\* what each header line says, as configuration items
HeaderYield ==
    <<{<<"scenario", PyStr("nightly")>>},
      {<<"acks", PyStr("all")>>, <<"batch_size", PyInt(16384)>>, <<"size", PyInt(7)>>},
      {<<"record_size", PyInt(512)>>}>>
HeaderSeqs == {<<>>, <<1>>, <<2>>, <<3>>, <<1, 2>>, <<1, 3>>, <<2, 3>>, <<1, 2, 3>>}
RECURSIVE RenderHeader(_)
RenderHeader(hs) == IF Len(hs) = 0 THEN "" ELSE HeaderText[hs[1]] \o RenderHeader(Tail(hs))

DocumentedName ==
    "producer_baseline_acks_1_batch_16384_linger_10_zstd_size_1024_20240101.log"
ConfigNames ==
    {"producer_baseline_batch-32768.log", "producer_soak_acks1_size_1024.log", "run7.log",
     "consumer_fetch_fetch_500_lz4.log", "producer.log", "size9_acks-0.log", DocumentedName}
\* the labeled fields each name carries, and its scenario part
NameYield(name) ==
    CASE name = "producer_baseline_batch-32768.log" -> {<<"batch", PyInt(32768)>>}
      [] name = "producer_soak_acks1_size_1024.log" ->
            {<<"acks", PyStr("1_size_1024")>>, <<"size", PyInt(1024)>>}
      [] name = "consumer_fetch_fetch_500_lz4.log" ->
            {<<"compression", PyStr("lz4")>>, <<"fetch", PyInt(500)>>}
      [] name = "size9_acks-0.log" -> {<<"acks", PyInt(0)>>, <<"size", PyInt(9)>>}
      [] name = DocumentedName ->
            {<<"acks", PyStr("1_batch_16384_linger_10_zstd_size_1024_20240101")>>,
             <<"batch", PyInt(16384)>>, <<"linger", PyInt(10)>>, <<"size", PyInt(1024)>>,
             <<"compression", PyStr("zstd")>>}
      [] OTHER -> {}
NameScenario(name, test_type) ==
    CASE name \in {"producer_baseline_batch-32768.log", DocumentedName}
             /\ test_type = "producer" -> {<<"scenario", PyStr("baseline")>>}
      [] name = "producer_soak_acks1_size_1024.log" /\ test_type = "producer" ->
            {<<"scenario", PyStr("soak")>>}
      [] name = "consumer_fetch_fetch_500_lz4.log" /\ test_type = "consumer" ->
            {<<"scenario", PyStr("fetch")>>}
      [] OTHER -> {}

\* a log that holds one producer summary and one consumer result line
InitConfig ==
    /\ lines \in HeaderSeqs
    /\ \E name \in ConfigNames :
          file = [name |-> name,
                  content |-> RenderHeader(lines)
                              \o LineText([form |-> "summary", p |-> "B", pcts |-> {2}])
                              \o CsvText(CsvLit("B")) \o "\n",
                  readable |-> TRUE]
    /\ pc = "start"
    /\ ret = None
    /\ NoBatch
    /\ producer_df = <<>>

NextConfig == ParseProducerLog \/ ParseConsumerLog
SpecConfig == InitConfig /\ [][NextConfig]_vars

ItemKeys(items) == {kv[1] : kv \in items}
HeaderItems == UNION {HeaderYield[lines[k]] : k \in 1..Len(lines)}
NameItems == NameYield(file.name) \cup NameScenario(file.name, ret.test_type)

\* C4: the configuration of a record holds, for each key the name yields, the
\* name's value (also when a header comment yields the key too); for each key only
\* a header comment yields, the header's value; no other key; and the scenario of
\* the record is configuration['scenario'] when present, else 'unknown'.
C4_FilenameOverridesHeader ==
    pc = "done" =>
        /\ ret.kind = "record"
        /\ DictKeys(ret.configuration) = ItemKeys(HeaderItems) \cup ItemKeys(NameItems)
        /\ \A kv \in NameItems : DictGet(ret.configuration, kv[1], PyNone) = kv[2]
        /\ \A kv \in HeaderItems :
              kv[1] \notin ItemKeys(NameItems) =>
                  DictGet(ret.configuration, kv[1], PyNone) = kv[2]
        /\ ret.scenario = IF DictHas(ret.configuration, "scenario")
                          THEN DictGet(ret.configuration, "scenario", PyNone)
                          ELSE PyStr("unknown")
C4_Witness ==
    /\ pc = "done"
    /\ lines = <<1, 2, 3>>
    /\ file.name = "producer_soak_acks1_size_1024.log"
    /\ ret.kind = "record"
    /\ ret.test_type = "producer"
    /\ ret.scenario = PyStr("soak")
    /\ DictGet(ret.configuration, "acks", PyNone) = PyStr("1_size_1024")
    /\ DictGet(ret.configuration, "size", PyNone) = PyInt(1024)
    /\ DictGet(ret.configuration, "batch_size", PyNone) = PyInt(16384)
    /\ DictGet(ret.configuration, "record_size", PyNone) = PyInt(512)

\* C5: for a name in the documented convention
\* producer_baseline_acks_1_batch_16384_linger_10_zstd_size_1024_<timestamp> the
\* name yields acks=1, batch=16384, linger=10, size=1024, compression='zstd' and
\* scenario='baseline': the value of a keyword is the one token that follows it.
C5_DocumentedConvention ==
    (pc = "done" /\ file.name = DocumentedName /\ ret.kind = "record"
     /\ ret.test_type = "producer") =>
        /\ DictGet(ret.configuration, "acks", PyNone) = PyInt(1)
        /\ DictGet(ret.configuration, "batch", PyNone) = PyInt(16384)
        /\ DictGet(ret.configuration, "linger", PyNone) = PyInt(10)
        /\ DictGet(ret.configuration, "size", PyNone) = PyInt(1024)
        /\ DictGet(ret.configuration, "compression", PyNone) = PyStr("zstd")
        /\ ret.scenario = PyStr("baseline")

(***************************************************************************)
(* KafkaPerformanceParser.parse_all_logs                                   *)
(***************************************************************************)
MaxFiles == 3

\* code points order the characters of a name
CharOrder == "-." \o DigitChars \o UpperChars \o "_" \o LowerChars
Code(c) == CHOOSE k \in 1..Len(CharOrder) : Ch(CharOrder, k) = c
\* a < b as str
StrLess(a, b) ==
    \E k \in 1..(Len(a) + 1) :
        /\ k <= Len(b)
        /\ SubSeq(a, 1, k - 1) = SubSeq(b, 1, k - 1)
        /\ k = Len(a) + 1 \/ Code(Ch(a, k)) < Code(Ch(b, k))
EndsWith(s, suffix) ==
    Len(s) >= Len(suffix) /\ SubSeq(s, Len(s) - Len(suffix) + 1, Len(s)) = suffix

\* log_dir.glob('*.log')
GlobLog(dir) == {f \in dir : EndsWith(f.name, ".log")}
\* sorted(log_files): the files by name
SortedFilesDescending(files) ==
    CHOOSE q \in [1..Cardinality(files) -> files] :
        /\ \A f \in files : \E k \in DOMAIN q : q[k] = f
        /\ \A j, k \in DOMAIN q : j < k => StrLess(q[k].name, q[j].name)
SortedFiles(files) ==
    CHOOSE q \in [1..Cardinality(files) -> files] :
        /\ \A f \in files : \E k \in DOMAIN q : q[k] = f
        /\ \A j, k \in DOMAIN q : j < k => StrLess(q[j].name, q[k].name)

Skip == [kind |-> "continue"]
\* f.read(1000)
Read(text, n) == SubSeq(text, 1, IF Len(text) < n THEN Len(text) ELSE n)
TypeOfContentConsumerFirst(content) ==
    IF Contains(content, "Consumer") \/ Contains(content, "start.time") THEN "consumer"
    ELSE IF Contains(content, "Producer") \/ Contains(content, "records sent") THEN "producer"
    ELSE "unknown"
\* the type detected from the first characters of the content
TypeOfContent(content) ==
    IF Contains(content, "Producer") \/ Contains(content, "records sent") THEN "producer"
    ELSE IF Contains(content, "Consumer") \/ Contains(content, "start.time") THEN "consumer"
    ELSE "unknown"
\* the type from the name, else from the content; opening an unreadable file raises
TypeOfLog(log_file) ==
    IF LowerContains(log_file.name, "producer") THEN "producer"
    ELSE IF LowerContains(log_file.name, "consumer") THEN "consumer"
    ELSE IF ~log_file.readable THEN "raise"
    ELSE TypeOfContent(Read(log_file.content, 1000))
ParseAs(log_file, type) ==
    CASE type = "producer" -> parse_producer_log(log_file)
      [] type = "consumer" -> parse_consumer_log(log_file)
      [] type = "raise" -> Raised
      [] OTHER -> Skip
\* the body of the try: the parse for the type of the file
ParseByType(log_file) == ParseAs(log_file, TypeOfLog(log_file))

SummaryB == [form |-> "summary", p |-> "B", pcts |-> {2}]
\* the files a directory is made of
FilePool ==
    {[name |-> "producer_b.log", content |-> LineText(SummaryB), readable |-> TRUE],
     [name |-> "Producer_a.log", content |-> LineText([form |-> "bad", p |-> "A", pcts |-> {}]),
      readable |-> TRUE],
     [name |-> "producer_z.log", content |-> "Starting producer test\n", readable |-> TRUE],
     [name |-> "producer_x.txt", content |-> LineText(SummaryB), readable |-> TRUE],
     [name |-> "consumer_1.log", content |-> CsvHeader \o "\n" \o CsvText(CsvLit("B")) \o "\n",
      readable |-> TRUE],
     [name |-> "consumer_0.log", content |-> "", readable |-> FALSE],
     [name |-> "run.log", content |-> LineText(SummaryB), readable |-> TRUE],
     [name |-> "misc.log", content |-> "hello\n", readable |-> TRUE],
     [name |-> "other.log", content |-> "", readable |-> FALSE],
     [name |-> "stats.log", content |-> CsvHeader \o "\n" \o CsvText(CsvLit("A")) \o "\n",
      readable |-> TRUE]}
Directories == {d \in SUBSET FilePool : Cardinality(d) <= MaxFiles}

InitAll ==
    /\ log_dir \in Directories
    /\ log_files = <<>>
    /\ idx = 0
    /\ producer_df = <<>>
    /\ all_results = <<>>
    /\ lines = <<>>
    /\ file = [name |-> "", content |-> "", readable |-> FALSE]
    /\ pc = "start"
    /\ ret = None

\* all_results = []; the glob; the early return of an empty directory; the sort
ListLogs ==
    /\ pc = "start"
    /\ log_files' = SortedFiles(GlobLog(log_dir))
    /\ pc' = IF GlobLog(log_dir) = {} THEN "done" ELSE "loop"
    /\ UNCHANGED <<lines, file, ret, log_dir, idx, all_results, producer_df>>

\* one pass of the for loop, with its try/except
ParseNextLog ==
    /\ pc = "loop"
    /\ idx < Len(log_files)
    /\ file' = log_files[idx + 1]
    /\ ret' = ParseByType(file')
    /\ all_results' = IF ret'.kind = "record" THEN Append(all_results, ret') ELSE all_results
    /\ idx' = idx + 1
    /\ UNCHANGED <<lines, log_dir, log_files, pc, producer_df>>

ReturnAll ==
    /\ pc = "loop"
    /\ idx = Len(log_files)
    /\ pc' = "done"
    /\ UNCHANGED <<lines, file, ret, log_dir, log_files, idx, all_results, producer_df>>

NextAll == ListLogs \/ ParseNextLog \/ ReturnAll
SpecAll == InitAll /\ [][NextAll]_vars

\* what each file of the pool holds: the metrics of its record, if it has one
PoolRecord(name) ==
    CASE name \in {"producer_b.log", "run.log"} ->
            [test_type |-> "producer", metrics |-> ExpectedProducer(SummaryB)]
      [] name = "consumer_1.log" -> [test_type |-> "consumer", metrics |-> ExpectedConsumer("B")]
      [] name = "stats.log" -> [test_type |-> "consumer", metrics |-> ExpectedConsumer("A")]
      [] OTHER -> [test_type |-> "none", metrics |-> <<>>]
\* the names of the directory's logs that hold a record, among the first n in name order
RECURSIVE ExpectedRecords(_, _)
ExpectedRecords(names, n) ==
    IF n = 0 THEN <<>>
    ELSE LET rest == ExpectedRecords(names, n - 1)
         IN  IF PoolRecord(names[n]).test_type = "none" THEN rest
             ELSE Append(rest, names[n])
LogNames == {f.name : f \in {g \in log_dir : EndsWith(g.name, ".log")}}
Ascending(names) == \A j, k \in DOMAIN names : j < k => StrLess(names[j], names[k])

\* C6: the loop visits the logs of the directory once each, in ascending name
\* order; after n passes the records are those of the first n logs that could be
\* read, classified and matched, in that order, whatever happened to the other
\* files (unreadable, unknown type, no match, an exception); at the return every
\* log has been visited.
C6_EveryFileOnceInOrder ==
    pc \in {"loop", "done"} =>
        LET names == [k \in DOMAIN log_files |-> log_files[k].name]
        IN  /\ {names[k] : k \in DOMAIN names} = LogNames
            /\ Len(names) = Cardinality(LogNames)
            /\ Ascending(names)
            /\ idx <= Len(names)
            /\ idx > 0 => file = log_files[idx]
            /\ pc = "done" => idx = Len(names)
            /\ [k \in DOMAIN all_results |-> all_results[k].filename]
                   = ExpectedRecords(names, idx)
            /\ \A k \in DOMAIN all_results :
                  /\ all_results[k].test_type = PoolRecord(all_results[k].filename).test_type
                  /\ all_results[k].metrics = PoolRecord(all_results[k].filename).metrics
C6_Witness ==
    /\ pc = "done"
    /\ LogNames = {"Producer_a.log", "other.log", "run.log"}
    /\ idx = 3
    /\ Len(all_results) = 1
    /\ all_results[1].filename = "run.log"
    /\ all_results[1].metrics = ExpectedProducer(SummaryB)

(***************************************************************************)
(* numpy float64 arithmetic.  A float is a whole number of quanta of       *)
(* 2^-FractionBits; the representable ones have a significand of           *)
(* MantissaBits bits, and every operation rounds its exact result to the   *)
(* nearest of them, ties to the even significand.                          *)
(***************************************************************************)
MantissaBits == 5
FractionBits == 6

Quantum == 2 ^ FractionBits
Np(q) == [t |-> "float64", n |-> q, e |-> 0, s |-> ""]

\* the distance of neighbouring floats at num/den
RECURSIVE Spacing(_, _, _)
Spacing(num, den, sp) ==
    IF num < den * sp * (2 ^ MantissaBits) THEN sp ELSE Spacing(num, den, 2 * sp)
FRoundAbs(num, den) ==
    LET sp == Spacing(num, den, 1)
        d == den * sp
        m == num \div d
        r == num - m * d
    IN  (IF 2 * r > d \/ (2 * r = d /\ m % 2 = 1) THEN m + 1 ELSE m) * sp
\* num/den quanta as a float
FRound(num, den) == IF num < 0 THEN 0 - FRoundAbs(0 - num, den) ELSE FRoundAbs(num, den)
FAdd(a, b) == FRound(a + b, 1)
FSub(a, b) == FRound(a - b, 1)
FMul(a, b) == FRound(a * b, Quantum)
RECURSIVE SqrtSpacing(_, _)
SqrtSpacing(x, sp) ==
    IF x < sp * sp * (4 ^ MantissaBits) THEN sp ELSE SqrtSpacing(x, 2 * sp)
FSqrt(a) ==
    LET x == a * Quantum
        sp == SqrtSpacing(x, 1)
        k == CHOOSE j \in 0..(2 ^ MantissaBits) :
                 (j * sp) * (j * sp) <= x /\ x < ((j + 1) * sp) * ((j + 1) * sp)
        mid == (2 * k + 1) * sp
    IN  (IF 4 * x > mid * mid \/ (4 * x = mid * mid /\ k % 2 = 1) THEN k + 1 ELSE k) * sp

\* np.array(values): each number as a float64
ToFloat(v) == IF v.t = "int" THEN FRound(v.n * Quantum, 1) ELSE FRound(v.n * Quantum, 10 ^ v.e)

RECURSIVE FSum(_, _)
FSum(arr, n) == IF n = 1 THEN arr[1] ELSE FAdd(FSum(arr, n - 1), arr[n])
SeqMin(arr) == CHOOSE x \in {arr[k] : k \in DOMAIN arr} : \A k \in DOMAIN arr : x <= arr[k]
SeqMax(arr) == CHOOSE x \in {arr[k] : k \in DOMAIN arr} : \A k \in DOMAIN arr : x >= arr[k]
Sorted(arr) ==
    CHOOSE q \in [DOMAIN arr -> {arr[k] : k \in DOMAIN arr}] :
        /\ \A j, k \in DOMAIN q : j < k => q[j] <= q[k]
        /\ \A x \in {arr[k] : k \in DOMAIN arr} :
              Cardinality({k \in DOMAIN q : q[k] = x}) = Cardinality({k \in DOMAIN arr : arr[k] = x})

NpMean(arr) == FRound(FSum(arr, Len(arr)), Len(arr))
NpStdUncentered(arr) ==
    LET x == [k \in DOMAIN arr |-> FMul(arr[k], arr[k])]
    IN  FSqrt(FRound(FSum(x, Len(x)), Len(x)))
NpStd(arr) ==
    LET arrmean == NpMean(arr)
        x == [k \in DOMAIN arr |-> FMul(FSub(arr[k], arrmean), FSub(arr[k], arrmean))]
    IN  FSqrt(FRound(FSum(x, Len(x)), Len(x)))
\* method 'linear': the value at index (n - 1) * q / 100 of the sorted values,
\* interpolated between its neighbours by _lerp
NpPercentile(arr, q) ==
    LET sorted == Sorted(arr)
        n == Len(arr)
        previous == ((n - 1) * q) \div 100
        t == ((n - 1) * q) % 100
        a == sorted[previous + 1]
        b == sorted[IF previous + 2 <= n THEN previous + 2 ELSE n]
        diff_b_a == FSub(b, a)
    IN  IF t >= 50 THEN FSub(b, FRound(diff_b_a * (100 - t), 100))
        ELSE FAdd(a, FRound(diff_b_a * t, 100))

(***************************************************************************)
(* ResultsAggregator                                                       *)
(***************************************************************************)
\* dict.get on a JSON object
Get(obj, k, default) == IF k \in DOMAIN obj THEN obj[k] ELSE default
\* the truth value of a Python value
Truthy(v) == CASE v.t = "none" -> FALSE [] v.t = "str" -> v.s # "" [] OTHER -> v.n # 0

RECURSIVE IntStr(_)
IntStr(n) ==
    IF n < 0 THEN "-" \o IntStr(0 - n)
    ELSE IF n < 10 THEN Ch(DigitChars, n + 1)
    ELSE IntStr(n \div 10) \o Ch(DigitChars, (n % 10) + 1)
RECURSIVE ZeroPad(_, _)
ZeroPad(digits, width) == IF Len(digits) >= width THEN digits ELSE ZeroPad("0" \o digits, width)
\* str(value) inside an f-string
Str(v) ==
    CASE v.t = "none" -> "None"
      [] v.t = "str" -> v.s
      [] v.t = "int" -> IntStr(v.n)
      [] v.t = "float" ->
            IntStr(v.n \div (10 ^ v.e)) \o "."
            \o (IF v.e = 0 THEN "0" ELSE ZeroPad(IntStr(v.n % (10 ^ v.e)), v.e))

relevant_keys ==
    <<"acks", "batch_size", "linger_ms", "compression_type", "compression", "record_size",
      "fetch_min_bytes", "max_poll_records", "num_producers", "num_consumers">>
\* sorted(keys)
InsertKey(sorted, key) ==
    LET n == Cardinality({k \in DOMAIN sorted : StrLess(sorted[k], key)})
    IN  SubSeq(sorted, 1, n) \o <<key>> \o SubSeq(sorted, n + 1, Len(sorted))
RECURSIVE SortedPrefix(_, _)
SortedPrefix(keys, n) == IF n = 0 THEN <<>> ELSE InsertKey(SortedPrefix(keys, n - 1), keys[n])
SortedKeys(keys) == SortedPrefix(keys, Len(keys))
sorted_relevant_keys == SortedKeys(relevant_keys)
RECURSIVE Join(_, _)
Join(sep, parts) ==
    IF Len(parts) = 1 THEN parts[1] ELSE parts[1] \o sep \o Join(sep, Tail(parts))
KeyPartCanonical(config, key) ==
    key \o "="
    \o (IF key = "acks" /\ Str(DictGet(config, key, PyNone)) = "-1" THEN "all"
        ELSE Str(DictGet(config, key, PyNone)))
KeyPart(config, key) == key \o "=" \o Str(DictGet(config, key, PyNone))
config_to_key(config) ==
    LET present == SelectSeq(sorted_relevant_keys, LAMBDA key : DictHas(config, key))
        parts == [k \in DOMAIN present |-> KeyPart(config, present[k])]
    IN  IF Len(parts) > 0 THEN Join("|", parts) ELSE "default"

RECURSIVE GroupByConfigLatest(_, _)
GroupByConfigLatest(results, n) ==
    IF n = 0 THEN <<>>
    ELSE DictSet(GroupByConfigLatest(results, n - 1),
                 config_to_key(Get(results[n], "configuration", <<>>)), <<results[n]>>)
\* groups[key].append(result), for each result in turn
RECURSIVE GroupByConfig(_, _)
GroupByConfig(results, n) ==
    IF n = 0 THEN <<>>
    ELSE LET groups == GroupByConfig(results, n - 1)
             key == config_to_key(Get(results[n], "configuration", <<>>))
         IN  DictSet(groups, key, Append(DictGet(groups, key, <<>>), results[n]))

StatNull ==
    [mean |-> PyNone, std |-> PyNone, min |-> PyNone, max |-> PyNone,
     p50 |-> PyNone, p95 |-> PyNone, p99 |-> PyNone, count |-> 0]
calc_stats_partly_null(values) ==
    IF Len(values) = 0 THEN [StatNull EXCEPT !.std = Np(0)]
    ELSE LET arr == [k \in DOMAIN values |-> ToFloat(values[k])]
         IN  [mean |-> Np(NpMean(arr)), std |-> Np(NpStd(arr)),
              min |-> Np(SeqMin(arr)), max |-> Np(SeqMax(arr)),
              p50 |-> Np(NpPercentile(arr, 50)), p95 |-> Np(NpPercentile(arr, 95)),
              p99 |-> Np(NpPercentile(arr, 99)), count |-> Len(values)]
calc_stats(values) ==
    IF Len(values) = 0 THEN StatNull
    ELSE LET arr == [k \in DOMAIN values |-> ToFloat(values[k])]
         IN  [mean |-> Np(NpMean(arr)), std |-> Np(NpStd(arr)),
              min |-> Np(SeqMin(arr)), max |-> Np(SeqMax(arr)),
              p50 |-> Np(NpPercentile(arr, 50)), p95 |-> Np(NpPercentile(arr, 95)),
              p99 |-> Np(NpPercentile(arr, 99)), count |-> Len(values)]

\* [m.get(name, 0) for m in metrics_list if m.get(name)]
TruthyValues(metrics_list, name) ==
    LET kept == SelectSeq(metrics_list, LAMBDA m : Truthy(Get(m, name, PyNone)))
    IN  [k \in DOMAIN kept |-> Get(kept[k], name, PyInt(0))]
\* [m.get(name, 0) for m in metrics_list if m.get(name) is not None]
NotNoneValues(metrics_list, name) ==
    LET kept == SelectSeq(metrics_list, LAMBDA m : Get(m, name, PyNone) # PyNone)
    IN  [k \in DOMAIN kept |-> Get(kept[k], name, PyInt(0))]
MetricsList(results) == [k \in DOMAIN results |-> Get(results[k], "metrics", <<>>)]

ProducerGroup(results) ==
    [configuration |-> Get(results[1], "configuration", <<>>),
     test_count |-> Len(results),
     throughput_mb |-> calc_stats(TruthyValues(MetricsList(results), "throughput_mb")),
     throughput_rps |-> calc_stats(TruthyValues(MetricsList(results), "throughput_rps")),
     avg_latency_ms |-> calc_stats(TruthyValues(MetricsList(results), "avg_latency_ms")),
     p99_latency_ms |-> calc_stats(TruthyValues(MetricsList(results), "p99_ms"))]
ConsumerGroup(results) ==
    [configuration |-> Get(results[1], "configuration", <<>>),
     test_count |-> Len(results),
     throughput_mb_sec |-> calc_stats(TruthyValues(MetricsList(results), "throughput_mb_sec")),
     throughput_msg_sec |-> calc_stats(TruthyValues(MetricsList(results), "throughput_msg_sec")),
     rebalance_time_ms |-> calc_stats(NotNoneValues(MetricsList(results), "rebalance_time_ms"))]

OfType(results, test_type) ==
    SelectSeq(results, LAMBDA r : Get(r, "test_type", "") = test_type)
aggregate_producer_results(results) ==
    LET groups == GroupByConfig(OfType(results, "producer"), Len(OfType(results, "producer")))
    IN  [k \in DOMAIN groups |-> <<groups[k][1], ProducerGroup(groups[k][2])>>]
aggregate_consumer_results(results) ==
    LET groups == GroupByConfig(OfType(results, "consumer"), Len(OfType(results, "consumer")))
    IN  [k \in DOMAIN groups |-> <<groups[k][1], ConsumerGroup(groups[k][2])>>]

AggregateProducerResults ==
    /\ pc = "start"
    /\ ret' = [kind |-> "aggregated", test_type |-> "producer",
               groups |-> aggregate_producer_results(all_results)]
    /\ pc' = "done"
    /\ UNCHANGED <<lines, file, log_dir, log_files, idx, all_results, producer_df>>
AggregateConsumerResults ==
    /\ pc = "start"
    /\ ret' = [kind |-> "aggregated", test_type |-> "consumer",
               groups |-> aggregate_consumer_results(all_results)]
    /\ pc' = "done"
    /\ UNCHANGED <<lines, file, log_dir, log_files, idx, all_results, producer_df>>
NextAggregate == AggregateProducerResults \/ AggregateConsumerResults

(***************************************************************************)
(* Results with configurations of several shapes                           *)
(***************************************************************************)
MaxResults == 2

GroupingConfigs ==
    {<< <<"acks", PyInt(1)>> >>,
     << <<"acks", PyStr("1")>> >>,
     << <<"acks", PyStr("1|batch_size=5")>> >>,
     << <<"acks", PyInt(1)>>, <<"batch_size", PyInt(5)>> >>,
     << <<"host", PyStr("h")>>, <<"batch_size", PyInt(5)>>, <<"acks", PyInt(1)>> >>,
     <<>>,
     << <<"scenario", PyStr("baseline")>> >>,
     << <<"linger_ms", PyFloat(25, 1)>>, <<"scenario", PyStr("baseline")>> >>}
GroupingResults ==
    {[test_type |-> "producer", configuration |-> c, metrics |-> ExpectedProducer(SummaryB)] :
         c \in GroupingConfigs}
    \cup {[test_type |-> "consumer", configuration |-> c, metrics |-> ExpectedConsumer("B")] :
              c \in GroupingConfigs}

InitGrouping ==
    /\ all_results \in UNION {[1..n -> GroupingResults] : n \in 0..MaxResults}
    /\ log_dir = {}
    /\ log_files = <<>>
    /\ idx = 0
    /\ producer_df = <<>>
    /\ lines = <<>>
    /\ file = [name |-> "", content |-> "", readable |-> FALSE]
    /\ pc = "start"
    /\ ret = None
SpecGrouping == InitGrouping /\ [][NextAggregate]_vars

RelevantKeySet == {relevant_keys[k] : k \in DOMAIN relevant_keys}
\* the results the aggregation was about, and the ones that went into the group of a key
Aggregated == OfType(all_results, ret.test_type)
Members(key) == SelectSeq(Aggregated, LAMBDA r : config_to_key(r.configuration) = key)
\* two configurations with the same relevant fields, each with the same value
SameRelevant(c, d) ==
    \A k \in RelevantKeySet :
        /\ DictHas(c, k) <=> DictHas(d, k)
        /\ DictHas(c, k) => DictGet(c, k, PyNone) = DictGet(d, k, PyNone)

\* C7: in every group, every record has, for each relevant field of the group's
\* representative configuration, the representative's value: the same value of
\* the same type.
C7_GroupingInvariant ==
    pc = "done" =>
        \A g \in DOMAIN ret.groups :
            /\ ret.groups[g][2].test_count = Len(Members(ret.groups[g][1]))
            /\ \A j \in DOMAIN Members(ret.groups[g][1]) :
                  \A k \in RelevantKeySet \cap DictKeys(ret.groups[g][2].configuration) :
                      LET r == Members(ret.groups[g][1])[j]
                      IN  /\ DictHas(r.configuration, k)
                          /\ DictGet(r.configuration, k, PyNone)
                                 = DictGet(ret.groups[g][2].configuration, k, PyNone)

\* C8: configurations that agree on the presence and the value of every relevant
\* field get the same key, whatever else they hold and in whatever order; a
\* relevant field present in one and absent in the other gives different keys;
\* the key is 'default' exactly when no relevant field is present.
C8_KeyOfRelevantFields ==
    pc = "done" =>
        \A i, j \in DOMAIN Aggregated :
            LET c == Aggregated[i].configuration
                d == Aggregated[j].configuration
                keyOf(x) == CHOOSE g \in DOMAIN ret.groups :
                                \E m \in DOMAIN Members(ret.groups[g][1]) :
                                    Members(ret.groups[g][1])[m] = x
            IN  /\ SameRelevant(c, d) => config_to_key(c) = config_to_key(d)
                /\ (\E k \in RelevantKeySet : DictHas(c, k) /\ ~DictHas(d, k))
                       => config_to_key(c) # config_to_key(d)
                /\ config_to_key(c) = "default" <=> RelevantKeySet \cap DictKeys(c) = {}
                /\ ret.groups[keyOf(Aggregated[i])][1] = config_to_key(c)

(***************************************************************************)
(* Results with metrics of several shapes                                  *)
(***************************************************************************)
MaxRuns == 3

AcksOne == << <<"acks", PyInt(1)>> >>
AcksAll == << <<"acks", PyStr("all")>> >>
StatsResults ==
    {[test_type |-> "producer", configuration |-> AcksOne,
      metrics |-> [throughput_mb |-> PyFloat(14, 0), throughput_rps |-> PyFloat(26, 0),
                   avg_latency_ms |-> PyFloat(15, 1), p99_ms |-> PyInt(3)]],
     [test_type |-> "producer", configuration |-> AcksOne,
      metrics |-> [throughput_mb |-> PyFloat(14, 0), throughput_rps |-> PyFloat(125, 1),
                   avg_latency_ms |-> PyFloat(7, 0), p99_ms |-> PyNone]],
     [test_type |-> "producer", configuration |-> AcksOne,
      metrics |-> [throughput_mb |-> PyFloat(0, 0), throughput_rps |-> PyInt(0),
                   avg_latency_ms |-> PyFloat(25, 1), p99_ms |-> PyInt(0)]],
     [test_type |-> "producer", configuration |-> AcksOne],
     [test_type |-> "producer", configuration |-> AcksAll,
      metrics |-> [throughput_mb |-> PyFloat(5, 1), throughput_rps |-> PyFloat(26, 0),
                   avg_latency_ms |-> PyFloat(3, 0), p99_ms |-> PyInt(9)]],
     [test_type |-> "consumer", configuration |-> AcksOne,
      metrics |-> [throughput_mb_sec |-> PyFloat(5, 1), throughput_msg_sec |-> PyFloat(7, 0),
                   rebalance_time_ms |-> PyInt(0)]],
     [test_type |-> "consumer", configuration |-> AcksOne,
      metrics |-> [throughput_mb_sec |-> PyFloat(14, 0), throughput_msg_sec |-> PyFloat(0, 0),
                   rebalance_time_ms |-> PyNone]],
     [test_type |-> "consumer", configuration |-> AcksAll,
      metrics |-> [throughput_mb_sec |-> PyFloat(25, 1), rebalance_time_ms |-> PyInt(14)]]}

InitStats ==
    /\ all_results \in UNION {[1..n -> StatsResults] : n \in 0..MaxRuns}
    /\ log_dir = {}
    /\ log_files = <<>>
    /\ idx = 0
    /\ producer_df = <<>>
    /\ lines = <<>>
    /\ file = [name |-> "", content |-> "", readable |-> FALSE]
    /\ pc = "start"
    /\ ret = None
SpecStats == InitStats /\ [][NextAggregate]_vars

\* the summaries of a group, each with the metric it is computed from and whether
\* a zero counts as a value for it
Tracked(group) ==
    IF ret.test_type = "producer"
    THEN {[stats |-> group.throughput_mb, of |-> "throughput_mb", zero |-> FALSE],
          [stats |-> group.throughput_rps, of |-> "throughput_rps", zero |-> FALSE],
          [stats |-> group.avg_latency_ms, of |-> "avg_latency_ms", zero |-> FALSE],
          [stats |-> group.p99_latency_ms, of |-> "p99_ms", zero |-> FALSE]}
    ELSE {[stats |-> group.throughput_mb_sec, of |-> "throughput_mb_sec", zero |-> FALSE],
          [stats |-> group.throughput_msg_sec, of |-> "throughput_msg_sec", zero |-> FALSE],
          [stats |-> group.rebalance_time_ms, of |-> "rebalance_time_ms", zero |-> TRUE]}
\* the results of a configuration that hold a value of a metric
Contributors(configuration, metric, zero) ==
    {k \in DOMAIN Aggregated :
        /\ Aggregated[k].configuration = configuration
        /\ "metrics" \in DOMAIN Aggregated[k]
        /\ metric \in DOMAIN Aggregated[k].metrics
        /\ Aggregated[k].metrics[metric].t \in {"int", "float"}
        /\ zero \/ Aggregated[k].metrics[metric].n # 0}
StatFields(st) == {st.mean, st.std, st.min, st.max, st.p50, st.p95, st.p99}

\* C9: a summary is null as a unit: its seven statistics are all null when its
\* count is 0 and all numbers when its count is at least 1; the count is the
\* number of the group's results that contributed a value, at most test_count.
C9_NullAsAUnit ==
    pc = "done" =>
        \A g \in DOMAIN ret.groups :
            \A tr \in Tracked(ret.groups[g][2]) :
                /\ tr.stats.count = 0 => StatFields(tr.stats) = {PyNone}
                /\ tr.stats.count >= 1 => \A x \in StatFields(tr.stats) : x.t = "float64"
                /\ tr.stats.count
                       = Cardinality(Contributors(ret.groups[g][2].configuration, tr.of, tr.zero))
                /\ tr.stats.count <= ret.groups[g][2].test_count
                /\ ret.groups[g][2].test_count
                       = Cardinality({k \in DOMAIN Aggregated :
                                         Aggregated[k].configuration
                                             = ret.groups[g][2].configuration})
C9_Witness ==
    /\ pc = "done"
    /\ ret.test_type = "producer"
    /\ Len(ret.groups) = 1
    /\ ret.groups[1][2].test_count = 3
    /\ ret.groups[1][2].throughput_mb.count = 1
    /\ ret.groups[1][2].throughput_mb.mean = Np(14 * Quantum)
    /\ ret.groups[1][2].avg_latency_ms.count = 2
    /\ ret.groups[1][2].p99_latency_ms = StatNull

\* C10: with a count of at least 1, min <= p50 <= p95 <= p99 <= max and
\* min <= mean <= max.
C10_StatisticalBounds ==
    pc = "done" =>
        \A g \in DOMAIN ret.groups :
            \A tr \in Tracked(ret.groups[g][2]) :
                tr.stats.count >= 1 =>
                    /\ tr.stats.min.n <= tr.stats.p50.n
                    /\ tr.stats.p50.n <= tr.stats.p95.n
                    /\ tr.stats.p95.n <= tr.stats.p99.n
                    /\ tr.stats.p99.n <= tr.stats.max.n
                    /\ tr.stats.min.n <= tr.stats.mean.n
                    /\ tr.stats.mean.n <= tr.stats.max.n

MeanOrZero(stats) == IF Truthy(Get(stats, "mean", PyInt(0))) THEN stats.mean.n ELSE 0
\* max(keys, key = ...) and min(keys, key = ...): the first of the best
ArgMaxLast(vals) ==
    CHOOSE k \in DOMAIN vals :
        /\ \A j \in DOMAIN vals : vals[j] <= vals[k]
        /\ \A j \in DOMAIN vals : j > k => vals[j] < vals[k]
ArgMax(vals) ==
    CHOOSE k \in DOMAIN vals :
        /\ \A j \in DOMAIN vals : vals[j] <= vals[k]
        /\ \A j \in DOMAIN vals : j < k => vals[j] < vals[k]
ArgMin(vals) ==
    CHOOSE k \in DOMAIN vals :
        /\ \A j \in DOMAIN vals : vals[j] >= vals[k]
        /\ \A j \in DOMAIN vals : j < k => vals[j] > vals[k]
\* {'config_key': best_key, **agg[best_key]}
BestOf(item) == ("config_key" :> item[1]) @@ item[2]
BestThroughputOrDefault(agg, field) ==
    IF Len(agg) = 0 THEN [config_key |-> "default"]
    ELSE BestOf(agg[ArgMax([k \in DOMAIN agg |-> MeanOrZero(agg[k][2][field])])])
BestThroughput(agg, field) ==
    IF Len(agg) = 0 THEN PyNone
    ELSE BestOf(agg[ArgMax([k \in DOMAIN agg |-> MeanOrZero(agg[k][2][field])])])
ValidLatency(agg) == SelectSeq(agg, LAMBDA item : item[2].avg_latency_ms.mean # PyNone)
FirstOfLeastLatency(valid_latency) ==
    IF Len(valid_latency) = 0 THEN PyNone
    ELSE BestOf(valid_latency[ArgMin([k \in DOMAIN valid_latency |->
                                          valid_latency[k][2].avg_latency_ms.mean.n])])
BestLatency(agg) == IF Len(agg) = 0 THEN PyNone ELSE FirstOfLeastLatency(ValidLatency(agg))
SummaryOf(results, producer_agg, consumer_agg, now) ==
    [summary |->
         [total_results |-> Len(results),
          producer_results |-> Len(OfType(results, "producer")),
          consumer_results |-> Len(OfType(results, "consumer")),
          unique_producer_configs |-> Len(producer_agg),
          unique_consumer_configs |-> Len(consumer_agg),
          aggregation_time |-> now],
     best_configurations |->
         [producer_highest_throughput |-> BestThroughput(producer_agg, "throughput_mb"),
          producer_lowest_latency |-> BestLatency(producer_agg),
          consumer_highest_throughput |-> BestThroughput(consumer_agg, "throughput_mb_sec")],
     producer_aggregations |-> producer_agg,
     consumer_aggregations |-> consumer_agg]
generate_summary(results, now) ==
    SummaryOf(results, aggregate_producer_results(results),
              aggregate_consumer_results(results), now)

\* datetime.now().isoformat()
Clock == {"2024-01-01T00:00:00", "2024-01-01T00:00:01"}

GenerateSummary ==
    /\ pc = "start"
    /\ \E now \in Clock :
           ret' = [kind |-> "summary", value |-> generate_summary(all_results, now)]
    /\ pc' = "done"
    /\ UNCHANGED <<lines, file, log_dir, log_files, idx, all_results, producer_df>>

\* the file written by json.dump(summary, f), as the document it holds
ExportToJson ==
    /\ pc = "start"
    /\ \E now \in Clock :
           ret' = [kind |-> "exported", output_file |-> generate_summary(all_results, now)]
    /\ pc' = "done"
    /\ UNCHANGED <<lines, file, log_dir, log_files, idx, all_results, producer_df>>

(***************************************************************************)
(* Results of three configurations, with equal and with missing means      *)
(***************************************************************************)
AcksZero == << <<"acks", PyInt(0)>> >>
SummaryResults ==
    {[test_type |-> "producer", configuration |-> AcksZero,
      metrics |-> [throughput_mb |-> PyFloat(14, 0), avg_latency_ms |-> PyFloat(3, 0)]],
     [test_type |-> "producer", configuration |-> AcksOne,
      metrics |-> [throughput_mb |-> PyFloat(14, 0), avg_latency_ms |-> PyFloat(15, 1)]],
     [test_type |-> "producer", configuration |-> AcksOne,
      metrics |-> [throughput_mb |-> PyFloat(26, 0), avg_latency_ms |-> PyFloat(7, 0)]],
     [test_type |-> "producer", configuration |-> AcksAll,
      metrics |-> [throughput_mb |-> PyFloat(5, 1), avg_latency_ms |-> PyFloat(15, 1)]],
     [test_type |-> "producer", configuration |-> AcksAll,
      metrics |-> [throughput_mb |-> PyFloat(0, 0), avg_latency_ms |-> PyNone]],
     [test_type |-> "consumer", configuration |-> AcksZero,
      metrics |-> [throughput_mb_sec |-> PyFloat(25, 1)]],
     [test_type |-> "consumer", configuration |-> AcksOne,
      metrics |-> [throughput_mb_sec |-> PyFloat(25, 1)]],
     [test_type |-> "consumer", configuration |-> AcksAll,
      metrics |-> [throughput_mb_sec |-> PyFloat(14, 0)]]}

InitSummary ==
    /\ all_results \in UNION {[1..n -> SummaryResults] : n \in 0..MaxRuns}
    /\ log_dir = {}
    /\ log_files = <<>>
    /\ idx = 0
    /\ producer_df = <<>>
    /\ lines = <<>>
    /\ file = [name |-> "", content |-> "", readable |-> FALSE]
    /\ pc = "start"
    /\ ret = None
NextSummary == GenerateSummary \/ ExportToJson
SpecSummary == InitSummary /\ [][NextSummary]_vars

\* the place in the loaded collection of the first result of a group
FirstRecord(test_type, key) ==
    CHOOSE k \in DOMAIN all_results :
        /\ all_results[k].test_type = test_type
        /\ config_to_key(all_results[k].configuration) = key
        /\ \A j \in 1..(k - 1) :
              ~(/\ all_results[j].test_type = test_type
                /\ config_to_key(all_results[j].configuration) = key)
\* best is the group of agg with the greatest mean of a field: no group has a
\* greater one, and no group with the same mean (or, as best, without one)
\* starts earlier in the loaded collection
IsHighest(best, agg, field, test_type) ==
    \E g \in DOMAIN agg :
        /\ best = ("config_key" :> agg[g][1]) @@ agg[g][2]
        /\ \A h \in DOMAIN agg :
              /\ agg[h][2][field].mean # PyNone =>
                    /\ agg[g][2][field].mean # PyNone
                    /\ agg[h][2][field].mean.n <= agg[g][2][field].mean.n
              /\ (h # g /\ agg[h][2][field].mean = agg[g][2][field].mean) =>
                    FirstRecord(test_type, agg[g][1]) < FirstRecord(test_type, agg[h][1])
IsLowestLatency(best, agg) ==
    \E g \in DOMAIN agg :
        /\ best = ("config_key" :> agg[g][1]) @@ agg[g][2]
        /\ agg[g][2].avg_latency_ms.mean # PyNone
        /\ \A h \in DOMAIN agg :
              agg[h][2].avg_latency_ms.mean # PyNone =>
                  /\ agg[g][2].avg_latency_ms.mean.n <= agg[h][2].avg_latency_ms.mean.n
                  /\ (h # g /\ agg[h][2].avg_latency_ms.mean = agg[g][2].avg_latency_ms.mean) =>
                        FirstRecord("producer", agg[g][1]) < FirstRecord("producer", agg[h][1])

\* C12: the summary's producer_highest_throughput and consumer_highest_throughput
\* are a group whose mean throughput is >= every other group's, and
\* producer_lowest_latency a group whose mean avg_latency_ms is <= every other
\* group's; of several such groups it is the one whose first record comes
\* earliest in the loaded collection.
C12_BestConfigurations ==
    (pc = "done" /\ ret.kind = "summary") =>
        LET best == ret.value.best_configurations
            producer_agg == ret.value.producer_aggregations
            consumer_agg == ret.value.consumer_aggregations
        IN  /\ Len(producer_agg) > 0 =>
                  IsHighest(best.producer_highest_throughput, producer_agg,
                            "throughput_mb", "producer")
            /\ (\E g \in DOMAIN producer_agg : producer_agg[g][2].avg_latency_ms.mean # PyNone)
                  => IsLowestLatency(best.producer_lowest_latency, producer_agg)
            /\ Len(consumer_agg) > 0 =>
                  IsHighest(best.consumer_highest_throughput, consumer_agg,
                            "throughput_mb_sec", "consumer")
C12_Witness ==
    /\ pc = "done"
    /\ ret.kind = "summary"
    /\ Len(all_results) = 3
    /\ all_results[1].configuration = AcksOne
    /\ all_results[2].configuration = AcksZero
    /\ all_results[3].configuration = AcksAll
    /\ Len(ret.value.producer_aggregations) = 3
    /\ ret.value.producer_aggregations[1][2].throughput_mb.mean
           = ret.value.producer_aggregations[2][2].throughput_mb.mean
    /\ ret.value.producer_aggregations[1][2].avg_latency_ms.mean
           = ret.value.producer_aggregations[3][2].avg_latency_ms.mean
    /\ ret.value.best_configurations.producer_highest_throughput.config_key = "acks=1"
    /\ ret.value.best_configurations.producer_lowest_latency.config_key = "acks=1"

\* C17: with no loaded result generate_summary returns a summary: the five
\* counts are 0, both aggregations are empty and the three best configurations
\* are null.
C17_EmptySummary ==
    (pc = "done" /\ ret.kind = "summary" /\ all_results = <<>>) =>
        /\ ret.value.summary.total_results = 0
        /\ ret.value.summary.producer_results = 0
        /\ ret.value.summary.consumer_results = 0
        /\ ret.value.summary.unique_producer_configs = 0
        /\ ret.value.summary.unique_consumer_configs = 0
        /\ ret.value.producer_aggregations = <<>>
        /\ ret.value.consumer_aggregations = <<>>
        /\ ret.value.best_configurations
               = [producer_highest_throughput |-> PyNone,
                  producer_lowest_latency |-> PyNone,
                  consumer_highest_throughput |-> PyNone]
C17_Witness ==
    /\ pc = "done"
    /\ ret.kind = "summary"
    /\ all_results = <<>>
    /\ ret.value.summary.total_results = 0
    /\ DOMAIN ret.value.best_configurations
           = {"producer_highest_throughput", "producer_lowest_latency",
              "consumer_highest_throughput"}

(***************************************************************************)
(* load_all_results and main of aggregate_results.py                       *)
(***************************************************************************)
\* input_dir.glob('*.json')
GlobJson(dir) == {f \in dir : EndsWith(f.name, ".json")}
\* open(json_file) and json.load(f): the document of the file; a file that
\* cannot be read, or whose text is no JSON document, raises
JsonLoad(json_file) ==
    IF ~json_file.readable \/ json_file.data.kind = "invalid" THEN Raised ELSE json_file.data
\* the body of the try, with its except
LoadedAppendOnly(results, data) ==
    IF data.kind = "raise" THEN results
    ELSE Append(results, IF data.kind = "list" THEN data.items ELSE data.items[1])
Loaded(results, data) ==
    CASE data.kind = "raise" -> results
      [] data.kind = "list" -> results \o data.items
      [] OTHER -> Append(results, data.items[1])

Exit(code, output_file) == [kind |-> "exit", code |-> code, output_file |-> output_file]

\* main: the check of the input directory
ValidateInput ==
    /\ pc = "start"
    /\ \E is_dir \in (IF log_dir = {} THEN BOOLEAN ELSE {TRUE}) :
           IF is_dir THEN pc' = "glob" /\ ret' = ret
           ELSE pc' = "done" /\ ret' = Exit(1, PyNone)
    /\ UNCHANGED <<lines, file, log_dir, log_files, idx, all_results, producer_df>>
\* the glob; the early return of a directory without JSON files; the sort
ListJson ==
    /\ pc = "glob"
    /\ log_files' = SortedFiles(GlobJson(log_dir))
    /\ IF GlobJson(log_dir) = {}
       THEN pc' = "loaded" /\ ret' = [kind |-> "count", n |-> 0]
       ELSE pc' = "load" /\ ret' = ret
    /\ UNCHANGED <<lines, file, log_dir, idx, all_results, producer_df>>
\* one pass of the for loop, with its try/except
LoadNextJson ==
    /\ pc = "load"
    /\ idx < Len(log_files)
    /\ file' = log_files[idx + 1]
    /\ all_results' = Loaded(all_results, JsonLoad(file'))
    /\ idx' = idx + 1
    /\ UNCHANGED <<lines, ret, log_dir, log_files, pc, producer_df>>
ReturnLoaded ==
    /\ pc = "load"
    /\ idx = Len(log_files)
    /\ ret' = [kind |-> "count", n |-> Len(all_results)]
    /\ pc' = "loaded"
    /\ UNCHANGED <<lines, file, log_dir, log_files, idx, all_results, producer_df>>
\* main after load_all_results, with the default --format json: the exit
\* without an export when nothing was loaded, else export_to_json
MainExport ==
    /\ pc = "loaded"
    /\ IF ret.n = 0 THEN ret' = Exit(0, PyNone)
       ELSE \E now \in Clock : ret' = Exit(0, generate_summary(all_results, now))
    /\ pc' = "done"
    /\ UNCHANGED <<lines, file, log_dir, log_files, idx, all_results, producer_df>>

ResultA == [test_type |-> "producer", configuration |-> AcksZero,
            metrics |-> [throughput_mb |-> PyFloat(14, 0), avg_latency_ms |-> PyFloat(3, 0)]]
ResultB == [test_type |-> "producer", configuration |-> AcksOne,
            metrics |-> [throughput_mb |-> PyFloat(26, 0), avg_latency_ms |-> PyFloat(7, 0)]]
ResultC == [test_type |-> "consumer", configuration |-> AcksAll,
            metrics |-> [throughput_mb_sec |-> PyFloat(14, 0)]]
JsonList(items) == [kind |-> "list", items |-> items]
JsonObject(value) == [kind |-> "object", items |-> <<value>>]
JsonInvalid == [kind |-> "invalid", items |-> <<>>]
\* the files an input directory is made of
JsonPool ==
    {[name |-> "run2.json", readable |-> TRUE, data |-> JsonList(<<ResultB, ResultA>>)],
     [name |-> "run10.json", readable |-> TRUE, data |-> JsonObject(ResultC)],
     [name |-> "Run3.json", readable |-> TRUE, data |-> JsonList(<<ResultA, ResultC>>)],
     [name |-> "empty.json", readable |-> TRUE, data |-> JsonList(<<>>)],
     [name |-> "broken.json", readable |-> TRUE, data |-> JsonInvalid],
     [name |-> "locked.json", readable |-> FALSE, data |-> JsonObject(ResultA)],
     [name |-> "notes.txt", readable |-> TRUE, data |-> JsonObject(ResultB)],
     [name |-> "single.json", readable |-> TRUE, data |-> JsonObject(ResultB)]}
JsonDirectories == {d \in SUBSET JsonPool : Cardinality(d) <= MaxFiles}

InitMain ==
    /\ log_dir \in JsonDirectories
    /\ log_files = <<>>
    /\ idx = 0
    /\ producer_df = <<>>
    /\ all_results = <<>>
    /\ lines = <<>>
    /\ file = [name |-> "", content |-> "", readable |-> FALSE]
    /\ pc = "start"
    /\ ret = None
NextMain == ValidateInput \/ ListJson \/ LoadNextJson \/ ReturnLoaded \/ MainExport
SpecMain == InitMain /\ [][NextMain]_vars

\* what each file of the pool holds
PoolContent(name) ==
    CASE name = "run2.json" -> <<ResultB, ResultA>>
      [] name = "run10.json" -> <<ResultC>>
      [] name = "Run3.json" -> <<ResultA, ResultC>>
      [] name = "single.json" -> <<ResultB>>
      [] OTHER -> <<>>
RECURSIVE Concatenation(_, _)
Concatenation(names, n) ==
    IF n = 0 THEN <<>> ELSE Concatenation(names, n - 1) \o PoolContent(names[n])
JsonNames == {f.name : f \in {g \in log_dir : EndsWith(g.name, ".json")}}

\* C16: the loop visits the JSON files of the directory once each, in ascending
\* name order; after n passes all_results is the concatenation of the contents
\* of the first n files that could be loaded (the elements of an array in order,
\* an object as one element); a file that cannot be read or parsed adds nothing,
\* changes nothing and does not stop the loop; the count returned is the length.
C16_LoadedInOrder ==
    pc \in {"load", "loaded", "done"} =>
        LET names == [k \in DOMAIN log_files |-> log_files[k].name]
        IN  /\ {names[k] : k \in DOMAIN names} = JsonNames
            /\ Len(names) = Cardinality(JsonNames)
            /\ Ascending(names)
            /\ idx <= Len(names)
            /\ pc # "load" => idx = Len(names)
            /\ all_results = Concatenation(names, idx)
            /\ (pc = "loaded") => ret = [kind |-> "count", n |-> Len(all_results)]
C16_Witness ==
    /\ pc = "loaded"
    /\ JsonNames = {"run2.json", "broken.json", "run10.json"}
    /\ idx = 3
    /\ file.name = "run2.json"
    /\ all_results = <<ResultC, ResultB, ResultA>>

\* C18: a run of main on an existing directory from which nothing is loaded
\* exits with status 0 and has written an output file, whose summary counts
\* zero results.
C18_EmptyRunExports ==
    (pc = "done" /\ ret.kind = "exit" /\ all_results = <<>> /\ ret.code = 0) =>
        /\ ret.output_file # PyNone
        /\ ret.output_file.summary.total_results = 0

(***************************************************************************)
(* KafkaPerformanceReporter: the producer DataFrame, its scores and the    *)
(* recommendations sheet.  A column of numbers is float64; a column that   *)
(* holds None in some rows holds NaN there; a column that holds None in    *)
(* every row keeps the None objects.                                       *)
(***************************************************************************)
Column(r, section, name, default) == Get(Get(r, section, <<>>), name, default)
ConfigColumn(r, name, default) == DictGet(Get(r, "configuration", <<>>), name, default)
\* one row of _create_producer_dataframe
ProducerRow(r) ==
    [scenario |-> Get(r, "scenario", "unknown"),
     acks |-> Str(ConfigColumn(r, "acks", PyStr(""))),
     batch_size |-> ConfigColumn(r, "batch_size", PyInt(0)),
     linger_ms |-> ConfigColumn(r, "linger_ms", PyInt(0)),
     compression_type |->
         ConfigColumn(r, "compression_type", ConfigColumn(r, "compression", PyStr("none"))),
     record_size |-> ConfigColumn(r, "record_size", PyInt(1024)),
     num_producers |-> ConfigColumn(r, "num_producers", PyInt(1)),
     throughput_rps |-> Column(r, "metrics", "throughput_rps", PyInt(0)),
     throughput_mb |-> Column(r, "metrics", "throughput_mb", PyInt(0)),
     avg_latency_ms |-> Column(r, "metrics", "avg_latency_ms", PyInt(0)),
     max_latency_ms |-> Column(r, "metrics", "max_latency_ms", PyInt(0)),
     p50_ms |-> Column(r, "metrics", "p50_ms", PyInt(0)),
     p95_ms |-> Column(r, "metrics", "p95_ms", PyInt(0)),
     p99_ms |-> Column(r, "metrics", "p99_ms", PyInt(0)),
     p999_ms |-> Column(r, "metrics", "p999_ms", PyInt(0))]
RowsOf(producer_results) == [k \in DOMAIN producer_results |-> ProducerRow(producer_results[k])]
create_producer_dataframe(data) == RowsOf(OfType(data, "producer"))

FDiv(a, b) == FRound(a * Quantum, b)
\* df[name].max() if df[name].max() > 0 else 1
Normaliser(column_max) == IF column_max > 0 THEN column_max ELSE Quantum
ColumnMax(df, name) == SeqMax([k \in DOMAIN df |-> ToFloat(df[k][name])])
throughput_score(row, max_throughput) ==
    FMul(FDiv(ToFloat(row.throughput_mb), max_throughput), 100 * Quantum)
latency_score(row, max_latency) ==
    FSub(100 * Quantum, FMul(FDiv(ToFloat(row.avg_latency_ms), max_latency), 100 * Quantum))
KeepSign(x) == x
\* max(0, x): x unless it is greater than 0
Max0(x) == IF x > 0 THEN x ELSE 0
\* the lambda of df.apply; a NaN p99 makes 100 - ... NaN, and max(0, NaN) is 0
consistency_score(row) ==
    IF ToFloat(row.avg_latency_ms) > 0
    THEN IF row.p99_ms = PyNone THEN 0
         ELSE Max0(FSub(100 * Quantum,
                        FMul(FSub(FDiv(ToFloat(row.p99_ms), ToFloat(row.avg_latency_ms)),
                                  Quantum),
                             50 * Quantum)))
    ELSE 50 * Quantum
\* None / float raises TypeError: a p99 column of None objects, in a row with a latency
ApplyRaises(df) ==
    /\ \A k \in DOMAIN df : df[k].p99_ms = PyNone
    /\ \E k \in DOMAIN df : ToFloat(df[k].avg_latency_ms) > 0
\* weight * score, the weight a number of hundredths
Weighted(percent, score) == FRound(score * percent, 100)
Composite(w, t, l, c) == FAdd(FAdd(Weighted(w[1], t), Weighted(w[2], l)), Weighted(w[3], c))
Scored(row, t, l, c) ==
    [row |-> row,
     throughput_score |-> Np(t), latency_score |-> Np(l), consistency_score |-> Np(c),
     score_max_throughput |-> Np(Composite(<<40, 20, 40>>, t, l, c)),
     score_balanced |-> Np(Composite(<<30, 35, 35>>, t, l, c)),
     score_durability |-> Np(Composite(<<20, 35, 45>>, t, l, c))]
ScoredRow(row, max_throughput, max_latency) ==
    Scored(row, throughput_score(row, max_throughput), latency_score(row, max_latency),
           consistency_score(row))
\* Series.idxmax() and Series.idxmin(): the first label of the greatest / least value
IdxMax(vals) ==
    CHOOSE k \in DOMAIN vals :
        /\ \A j \in DOMAIN vals : vals[j] <= vals[k]
        /\ \A j \in DOMAIN vals : j < k => vals[j] < vals[k]
IdxMin(vals) ==
    CHOOSE k \in DOMAIN vals :
        /\ \A j \in DOMAIN vals : vals[j] >= vals[k]
        /\ \A j \in DOMAIN vals : j < k => vals[j] > vals[k]
ScoresOf(df, scored_df, max_throughput, max_latency) ==
    [kind |-> "scores",
     scored_df |-> scored_df,
     max_throughput |-> Np(max_throughput),
     max_latency |-> Np(max_latency),
     best_throughput_idx |-> IdxMax([k \in DOMAIN df |-> ToFloat(df[k].throughput_mb)]),
     best_latency_idx |-> IdxMin([k \in DOMAIN df |-> ToFloat(df[k].avg_latency_ms)]),
     best_balanced_idx |-> IdxMax([k \in DOMAIN df |-> scored_df[k].score_balanced.n])]
ScoresWith(df, max_throughput, max_latency) ==
    ScoresOf(df, [k \in DOMAIN df |-> ScoredRow(df[k], max_throughput, max_latency)],
             max_throughput, max_latency)
NoScores == [kind |-> "empty"]
calculate_all_scores(df) ==
    IF Len(df) = 0 THEN NoScores
    ELSE IF ApplyRaises(df) THEN Raised
    ELSE ScoresWith(df, Normaliser(ColumnMax(df, "throughput_mb")),
                    Normaliser(ColumnMax(df, "avg_latency_ms")))

\* scored_df[(scored_df['acks'] == 'all') | (scored_df['acks'] == '-1')], by label
DurableConfigsAny(scored_df) == DOMAIN scored_df
DurableConfigs(scored_df) == {k \in DOMAIN scored_df : scored_df[k].row.acks \in {"all", "-1"}}
\* durable_configs['score_durability'].idxmax()
BestDurableIdxLeast(scored_df, durable_configs) ==
    CHOOSE k \in durable_configs :
        /\ \A j \in durable_configs :
              scored_df[j].score_durability.n >= scored_df[k].score_durability.n
        /\ \A j \in durable_configs :
              j < k => scored_df[j].score_durability.n > scored_df[k].score_durability.n
BestDurableIdx(scored_df, durable_configs) ==
    CHOOSE k \in durable_configs :
        /\ \A j \in durable_configs :
              scored_df[j].score_durability.n <= scored_df[k].score_durability.n
        /\ \A j \in durable_configs :
              j < k => scored_df[j].score_durability.n < scored_df[k].score_durability.n
BestDurable(scored_df, durable_configs) ==
    IF durable_configs = {} THEN PyNone
    ELSE scored_df[BestDurableIdx(scored_df, durable_configs)]
\* the three boxes of the sheet: the row each one shows, None for a box not written
Sheet(throughput, balanced, durability) ==
    [kind |-> "sheet", throughput |-> throughput, balanced |-> balanced,
     durability |-> durability]
create_recommendations_sheet(scores) ==
    IF scores.kind = "empty" THEN Sheet(PyNone, PyNone, PyNone)
    ELSE Sheet(scores.scored_df[scores.best_throughput_idx],
               scores.scored_df[scores.best_balanced_idx],
               BestDurable(scores.scored_df, DurableConfigs(scores.scored_df)))

\* producer_df after _calculate_all_scores: the score columns are added to
\* df = self.producer_df.copy(), so producer_df is as it was
FrameWithScores(df, scores) == IF scores.kind = "scores" THEN scores.scored_df ELSE df
FrameOfScores(df, scores) == df
\* __init__: the DataFrame and its scores; the TypeError leaves no reporter
CalculateAllScores ==
    /\ pc = "start"
    /\ ret' = calculate_all_scores(create_producer_dataframe(all_results))
    /\ producer_df' = FrameOfScores(create_producer_dataframe(all_results), ret')
    /\ pc' = IF ret'.kind = "raise" THEN "done" ELSE "scored"
    /\ UNCHANGED <<lines, file, log_dir, log_files, idx, all_results>>
CreateRecommendationsSheet ==
    /\ pc = "scored"
    /\ ret' = [kind |-> "report", scores |-> ret, sheet |-> create_recommendations_sheet(ret)]
    /\ pc' = "done"
    /\ UNCHANGED <<lines, file, log_dir, log_files, idx, all_results, producer_df>>

(***************************************************************************)
(* Results of the acks settings, with and without a 99th percentile        *)
(***************************************************************************)
Measured(acks, throughput_mb, avg_latency_ms, p99_ms) ==
    [test_type |-> "producer", scenario |-> "acks",
     configuration |-> << <<"acks", acks>> >>,
     metrics |-> [throughput_mb |-> throughput_mb, avg_latency_ms |-> avg_latency_ms,
                  p99_ms |-> p99_ms]]
ReportResults ==
    {Measured(PyInt(0), PyFloat(26, 0), PyFloat(15, 1), PyInt(3)),
     Measured(PyInt(1), PyFloat(14, 0), PyFloat(3, 0), PyInt(9)),
     Measured(PyStr("all"), PyFloat(5, 1), PyFloat(7, 0), PyInt(9)),
     Measured(PyStr("-1"), PyFloat(14, 0), PyFloat(3, 0), PyInt(3)),
     Measured(PyInt(-1), PyFloat(7, 0), PyFloat(7, 0), PyInt(7)),
     Measured(PyStr("all"), PyFloat(14, 0), PyFloat(7, 0), PyNone),
     Measured(PyInt(1), PyFloat(15, 1), PyFloat(13, 0), PyInt(13)),
     Measured(PyStr("all"), PyFloat(5, 1), PyFloat(9, 0), PyInt(21)),
     Measured(PyInt(0), PyFloat(0, 0), PyFloat(0, 0), PyInt(0)),
     Measured(PyInt(1), PyFloat(7, 0), PyFloat(3, 0), PyInt(13)),
     Measured(PyInt(1), PyFloat(14, 0), PyFloat(7, 0), PyInt(0)),
     [test_type |-> "consumer", configuration |-> AcksAll,
      metrics |-> [throughput_mb_sec |-> PyFloat(14, 0)]]}

InitReport ==
    /\ all_results \in UNION {[1..n -> ReportResults] : n \in 0..MaxRuns}
    /\ log_dir = {}
    /\ log_files = <<>>
    /\ idx = 0
    /\ producer_df = <<>>
    /\ lines = <<>>
    /\ file = [name |-> "", content |-> "", readable |-> FALSE]
    /\ pc = "start"
    /\ ret = None
NextReport == CalculateAllScores \/ CreateRecommendationsSheet
SpecReport == InitReport /\ [][NextReport]_vars

\* the rows of the scored DataFrame whose acks is 'all' or '-1'
Durable == {k \in DOMAIN ret.scores.scored_df : ret.scores.scored_df[k].row.acks \in {"all", "-1"}}

\* C13: the durability box shows a row whose acks, as a string, is 'all' or '-1'
\* and whose score_durability no other such row exceeds; without such a row the
\* box is not written, whatever the scores of the other rows.
C13_DurabilityAmongDurable ==
    (pc = "done" /\ ret.kind = "report" /\ ret.scores.kind = "scores") =>
        /\ Durable = {} <=> ret.sheet.durability = PyNone
        /\ Durable # {} =>
              /\ \E k \in Durable : ret.sheet.durability = ret.scores.scored_df[k]
              /\ \A j \in Durable :
                    ret.scores.scored_df[j].score_durability.n
                        <= ret.sheet.durability.score_durability.n
C13_Witness ==
    /\ pc = "done"
    /\ ret.kind = "report"
    /\ ret.scores.kind = "scores"
    /\ Cardinality(Durable) = 2
    /\ \E j, k \in Durable :
           ret.scores.scored_df[j].score_durability.n
               < ret.scores.scored_df[k].score_durability.n
    /\ \E j \in DOMAIN ret.scores.scored_df :
           /\ j \notin Durable
           /\ ret.scores.scored_df[j].score_durability.n
                  > ret.sheet.durability.score_durability.n

\* three rows, of acks 0, 1 and all, with rising latency and falling throughput
RisingLatencyFallingThroughput(z, o, a) ==
    /\ ret.scores.scored_df[z].row.acks = "0"
    /\ ret.scores.scored_df[o].row.acks = "1"
    /\ ret.scores.scored_df[a].row.acks = "all"
    /\ ToFloat(ret.scores.scored_df[z].row.avg_latency_ms)
           < ToFloat(ret.scores.scored_df[o].row.avg_latency_ms)
    /\ ToFloat(ret.scores.scored_df[o].row.avg_latency_ms)
           < ToFloat(ret.scores.scored_df[a].row.avg_latency_ms)
    /\ ToFloat(ret.scores.scored_df[z].row.throughput_mb)
           > ToFloat(ret.scores.scored_df[o].row.throughput_mb)
    /\ ToFloat(ret.scores.scored_df[o].row.throughput_mb)
           > ToFloat(ret.scores.scored_df[a].row.throughput_mb)

Least(t, l, c) == CHOOSE x \in {t, l, c} : \A y \in {t, l, c} : x <= y
Greatest(t, l, c) == CHOOSE x \in {t, l, c} : \A y \in {t, l, c} : x >= y
Between(score, t, l, c) == Least(t, l, c) <= score /\ score <= Greatest(t, l, c)

\* C15: every composite score is the weighted sum of the row's three component
\* scores, with weights 0.4/0.2/0.4, 0.3/0.35/0.35 and 0.2/0.35/0.45, and lies
\* between the least and the greatest of the three.
C15_ConvexCombination ==
    (pc = "scored" /\ ret.kind = "scores") =>
        \A k \in DOMAIN ret.scored_df :
            LET r == ret.scored_df[k]
                t == r.throughput_score.n
                l == r.latency_score.n
                c == r.consistency_score.n
            IN  /\ r.score_max_throughput.n = Composite(<<40, 20, 40>>, t, l, c)
                /\ r.score_balanced.n = Composite(<<30, 35, 35>>, t, l, c)
                /\ r.score_durability.n = Composite(<<20, 35, 45>>, t, l, c)
                /\ Between(r.score_max_throughput.n, t, l, c)
                /\ Between(r.score_balanced.n, t, l, c)
                /\ Between(r.score_durability.n, t, l, c)

(***************************************************************************)
(* Producer texts of progress lines and of lines that are nearly one       *)
(***************************************************************************)
\* a progress line, a line without its period, a line cut before the last field
ProgressLine(p) == [form |-> "summary", p |-> p, pcts |-> {}]
FallbackLines ==
    {ProgressLine("A"), ProgressLine("B"),
     [form |-> "summary", p |-> "A", pcts |-> 1..4],
     [form |-> "summary", p |-> "B", pcts |-> {2}],
     [form |-> "nodot", p |-> "B", pcts |-> {}],
     [form |-> "cut", p |-> "B", pcts |-> {}],
     [form |-> "junk", p |-> "A", pcts |-> {}],
     [form |-> "bad", p |-> "A", pcts |-> {}]}
FallbackLineText(l) ==
    CASE l.form = "nodot" -> PrefixText(BaseLit(l.p)) \o "\n"
      [] l.form = "cut" ->
            BaseLit(l.p)[1] \o " records sent, " \o BaseLit(l.p)[2] \o " records/sec ("
            \o BaseLit(l.p)[3] \o " MB/sec), " \o BaseLit(l.p)[4] \o " ms avg latency.\n"
      [] OTHER -> LineText(l)
RECURSIVE RenderFallback(_)
RenderFallback(ls) ==
    IF Len(ls) = 0 THEN "" ELSE FallbackLineText(ls[1]) \o RenderFallback(Tail(ls))

InitFallback ==
    /\ lines \in UNION {[1..n -> FallbackLines] : n \in 0..MaxLines}
    /\ file = [name |-> "producer_run.log", content |-> RenderFallback(lines),
               readable |-> TRUE]
    /\ pc = "start"
    /\ ret = None
    /\ NoBatch
    /\ producer_df = <<>>
SpecFallback == InitFallback /\ [][ParseProducerLog]_vars

\* the matches of the two patterns in the text
FinalMatches == FindIter(PRODUCER_FINAL_PATTERN, file.content, 1)
ProgressMatches == FindIter(PRODUCER_PROGRESS_PATTERN, file.content, 1)
\* the lines written as a progress line, the lines that hold the prefix, and the
\* last of a set of lines
ProgressLines == {k \in 1..Len(lines) : lines[k].form \in {"summary", "bad"} /\ lines[k].pcts = {}}
PrefixLines == {k \in 1..Len(lines) : lines[k].form \in {"summary", "bad", "nodot"}}
LastOf(ks) == lines[CHOOSE k \in ks : \A j \in ks : j <= k]
\* the outcome of a line: its numbers, or the ValueError of a number that is none
OutcomeOf(l, metrics, outcome) ==
    IF l.form = "bad" THEN outcome = Raised
    ELSE outcome.kind = "record" /\ outcome.metrics = metrics
\* lines 123 to 141 on the progress matches of the text, as if no final match were found
Fallback ==
    ProducerResult(file, MergedConfig(file, "producer"), <<>>, ProgressMatches)

\* C19: without a final-summary match the outcome is that of the progress-line
\* pattern: the five base metrics of its last match with the four percentiles
\* null, and no record only when it has no match either.
C19_ProgressFallback ==
    pc = "done" =>
        /\ Len(ProgressMatches) = Cardinality(ProgressLines)
        /\ FinalMatches = <<>> =>
              /\ ProgressLines = {} <=> ret = None
              /\ ProgressLines # {} =>
                    OutcomeOf(LastOf(ProgressLines),
                              ExpectedProducer(ProgressLine(LastOf(ProgressLines).p)), ret)
        /\ ProgressLines = {} <=> Fallback = None
        /\ ProgressLines # {} =>
              OutcomeOf(LastOf(ProgressLines),
                        ExpectedProducer(ProgressLine(LastOf(ProgressLines).p)), Fallback)
C19_Witness ==
    /\ pc = "done"
    /\ Len(lines) = 2
    /\ lines[1].form = "cut"
    /\ lines[2].form = "junk"
    /\ FinalMatches = <<>>
    /\ ProgressMatches = <<>>
    /\ ret = None

RECURSIVE Pad(_)
Pad(n) ==
    IF n = 0 THEN ""
    ELSE IF n % 2 = 1 THEN "=" \o Pad(n - 1)
    ELSE Pad(n \div 2) \o Pad(n \div 2)
SummaryText == LineText(SummaryB)
CsvDataText == CsvText(CsvLit("B")) \o "\n"
\* the number of characters up to the end of 'records sent' in SummaryText
SentEnd == Len(BaseLit("B")[1] \o " records sent")
Readable(name, content) == [name |-> name, content |-> content, readable |-> TRUE]
ClassifyPool ==
    {Readable("PRODUCER-1.log", CsvHeader \o "\n" \o CsvDataText),
     Readable("my_consumer.log", SummaryText),
     Readable("producer_consumer.log", CsvHeader \o "\n" \o CsvDataText),
     Readable("consumer_ok.log", CsvDataText),
     Readable("producer_ok.log", SummaryText),
     Readable("run1.log", SummaryText),
     Readable("run2.log", CsvHeader \o "\n" \o CsvDataText),
     Readable("run3.log", "Consumer lag 0, start.time unknown\n" \o SummaryText),
     Readable("run4.log", "Kafka Consumer test\n" \o CsvDataText),
     Readable("run5.log", "Kafka Producer test\n" \o CsvDataText),
     Readable("run6.log", "producer and consumer, Start.Time\n" \o CsvDataText),
     Readable("run7.log", Pad(1001 - SentEnd) \o SummaryText),
     Readable("run8.log", Pad(1000 - SentEnd) \o SummaryText),
     [name |-> "run9.log", content |-> "", readable |-> FALSE]}
ClassifyDirectories == {d \in SUBSET ClassifyPool : Cardinality(d) <= MaxFiles}

InitClassify ==
    /\ log_dir \in ClassifyDirectories
    /\ log_files = <<>>
    /\ idx = 0
    /\ producer_df = <<>>
    /\ all_results = <<>>
    /\ lines = <<>>
    /\ file = [name |-> "", content |-> "", readable |-> FALSE]
    /\ pc = "start"
    /\ ret = None
SpecClassify == InitClassify /\ [][NextAll]_vars

\* the class of each file of the pool by the rule of the claim, and the type of
\* the record it holds for the parser of that class
ClassOf(name) ==
    CASE name \in {"PRODUCER-1.log", "producer_consumer.log", "producer_ok.log",
                   "run1.log", "run3.log", "run5.log", "run8.log"} -> "producer"
      [] name \in {"my_consumer.log", "consumer_ok.log", "run2.log", "run4.log"} -> "consumer"
      [] name \in {"run6.log", "run7.log"} -> "unknown"
      [] OTHER -> "raise"
RecordOf(name) ==
    CASE name \in {"producer_ok.log", "run1.log", "run3.log", "run8.log"} -> "producer"
      [] name \in {"consumer_ok.log", "run2.log", "run4.log"} -> "consumer"
      [] OTHER -> "none"

\* C21: a log is parsed as producer when its name holds 'producer' in any case,
\* else as consumer when its name holds 'consumer'; else by its first 1000
\* characters: as producer when they hold 'Producer' or 'records sent', else as
\* consumer when they hold 'Consumer' or 'start.time', else it is skipped without
\* an error and without a record.
C21_Classification ==
    (pc \in {"loop", "done"} /\ idx > 0) =>
        /\ ret = ParseAs(file, ClassOf(file.name))
        /\ IF RecordOf(file.name) = "none" THEN ret.kind # "record"
           ELSE /\ ret.kind = "record"
                /\ ret.test_type = RecordOf(file.name)
                /\ ret.metrics = IF RecordOf(file.name) = "producer"
                                 THEN ExpectedProducer(SummaryB) ELSE ExpectedConsumer("B")
        /\ ClassOf(file.name) = "unknown" =>
              /\ ret = Skip
              /\ \A k \in DOMAIN all_results : all_results[k].filename # file.name
        /\ Len(all_results)
              = Cardinality({k \in 1..idx : RecordOf(log_files[k].name) # "none"})
C21_Witness ==
    /\ pc = "done"
    /\ LogNames = {"run3.log", "run7.log", "run8.log"}
    /\ Len(all_results) = 2
    /\ all_results[1].filename = "run3.log"
    /\ all_results[1].test_type = "producer"
    /\ all_results[2].filename = "run8.log"
    /\ ret.kind = "record"

(***************************************************************************)
(* Logs with a Configuration header line of several items                  *)
(***************************************************************************)
MaxItems == 2
\* an item as written, and the key and value it is to yield ("" for no key)
Item(text, key, value) == [text |-> text, key |-> key, value |-> value]
ConfigItems ==
    {Item("acks=all", "acks", PyStr("all")),
     Item("acks=-1", "acks", PyStr("-1")),
     Item("batch.size=16384", "batch_size", PyInt(16384)),
     Item("linger.ms=0.5", "linger_ms", PyFloat(5, 1)),
     Item("ratio=1.2.3", "ratio", PyStr("1.2.3")),
     Item("  max.in.flight =  007 ", "max_in_flight", PyInt(7)),
     Item("tag=a=b", "tag", PyStr("a=b")),
     Item("dot=.", "dot", PyStr(".")),
     Item("whole=2.", "whole", PyFloat(2, 0)),
     Item("ratio=.25", "ratio", PyFloat(25, 2)),
     Item("idempotent", "", PyNone),
     Item("empty=", "empty", PyStr(""))}
RECURSIVE JoinItems(_)
JoinItems(items) ==
    IF Len(items) = 0 THEN ""
    ELSE items[1].text \o (IF Len(items) = 1 THEN "" ELSE "," \o JoinItems(Tail(items)))
SecondConfigLine == "# Configuration: later.line=9\n"

InitItems ==
    /\ lines \in UNION {[1..n -> ConfigItems] : n \in 1..MaxItems}
    /\ \E second \in {"", SecondConfigLine} :
          file = [name |-> "producer.log",
                  content |-> "# Configuration: " \o JoinItems(lines) \o "\n" \o second
                              \o LineText(SummaryB),
                  readable |-> TRUE]
    /\ pc = "start"
    /\ ret = None
    /\ NoBatch
    /\ producer_df = <<>>
SpecItems == InitItems /\ [][ParseProducerLog]_vars

\* the items of the line that hold a '=', and the last of them for a key
Keyed == {k \in 1..Len(lines) : lines[k].key # ""}
LastKeyed(key) ==
    lines[CHOOSE k \in Keyed : lines[k].key = key /\ \A j \in Keyed : lines[j].key = key => j <= k]

\* C22: the items of the first Configuration line are its parts between commas,
\* each split at its first '='; the key is stored with every '.' replaced by '_',
\* the value as an integer when it is all digits, as a float when it is digits
\* and dots and a valid number, and as the string it is otherwise.
C22_ConfigItemCoercion ==
    pc = "done" =>
        /\ ret.kind = "record"
        /\ DictKeys(ret.configuration) = {lines[k].key : k \in Keyed}
        /\ \A k \in Keyed :
              DictGet(ret.configuration, lines[k].key, PyNone) = LastKeyed(lines[k].key).value
C22_Witness ==
    /\ pc = "done"
    /\ Len(lines) = 2
    /\ lines[1].text = "linger.ms=0.5"
    /\ lines[2].text = "ratio=1.2.3"
    /\ Contains(file.content, SecondConfigLine)
    /\ DictGet(ret.configuration, "linger_ms", PyNone) = PyFloat(5, 1)
    /\ DictGet(ret.configuration, "ratio", PyNone) = PyStr("1.2.3")
    /\ ~DictHas(ret.configuration, "later_line")

(***************************************************************************)
(* Zero, null and missing values in the statistics input                   *)
(***************************************************************************)
\* a result that holds a number other than 0 for a metric
HoldsNonZero(r, metric) ==
    /\ "metrics" \in DOMAIN r
    /\ metric \in DOMAIN r.metrics
    /\ r.metrics[metric].t \in {"int", "float"}
    /\ r.metrics[metric].n # 0
\* the values other than 0 of a metric over the results of a configuration, in order
NonZeroValues(configuration, metric) ==
    LET kept == SelectSeq(Aggregated,
                          LAMBDA r : r.configuration = configuration /\ HoldsNonZero(r, metric))
    IN  [k \in DOMAIN kept |-> kept[k].metrics[metric]]

\* C23: for every tracked metric of the producer and of the consumer aggregation
\* a record whose value is 0, null or missing contributes nothing: the statistics
\* are those of the other records' values, and count is their number.
C23_ZeroAsAbsent ==
    pc = "done" =>
        \A g \in DOMAIN ret.groups :
            \A tr \in Tracked(ret.groups[g][2]) :
                /\ tr.stats.count
                       = Len(NonZeroValues(ret.groups[g][2].configuration, tr.of))
                /\ tr.stats = calc_stats(NonZeroValues(ret.groups[g][2].configuration, tr.of))

(***************************************************************************)
(* The normalisers and the component scores                                *)
(***************************************************************************)
\* the producer records, and the greatest value of one of their metrics
ProducerRecords == SelectSeq(all_results, LAMBDA r : r.test_type = "producer")
GreatestMetric(name) ==
    CHOOSE x \in {ToFloat(ProducerRecords[k].metrics[name]) : k \in DOMAIN ProducerRecords} :
        \A k \in DOMAIN ProducerRecords : ToFloat(ProducerRecords[k].metrics[name]) <= x
\* the greater of a value and 1
Floor1(x) == IF x < Quantum THEN Quantum ELSE x

\* C24: max_throughput is the greatest throughput_mb of the producer records, and
\* 1 when that is less than 1; max_latency likewise of avg_latency_ms; each
\* record's throughput_score is 100 * throughput_mb / max_throughput and its
\* latency_score 100 - 100 * avg_latency_ms / max_latency.
C24_NormaliserFloor ==
    (pc = "scored" /\ ret.kind = "scores") =>
        /\ ret.max_throughput.n >= Quantum
        /\ ret.max_latency.n >= Quantum
        /\ ret.max_throughput.n = Floor1(GreatestMetric("throughput_mb"))
        /\ ret.max_latency.n = Floor1(GreatestMetric("avg_latency_ms"))
        /\ \A k \in DOMAIN ret.scored_df :
              /\ ret.scored_df[k].throughput_score.n
                     = FMul(FDiv(ToFloat(ProducerRecords[k].metrics.throughput_mb),
                                 Floor1(GreatestMetric("throughput_mb"))),
                            100 * Quantum)
              /\ ret.scored_df[k].latency_score.n
                     = FSub(100 * Quantum,
                            FMul(FDiv(ToFloat(ProducerRecords[k].metrics.avg_latency_ms),
                                      Floor1(GreatestMetric("avg_latency_ms"))),
                                 100 * Quantum))

\* 100 - 50 * (p99_ms / avg_latency_ms - 1)
Spread(p99_ms, avg_latency_ms) ==
    FSub(100 * Quantum,
         FMul(FSub(FDiv(ToFloat(p99_ms), ToFloat(avg_latency_ms)), Quantum), 50 * Quantum))

SixScores(r) ==
    {r.throughput_score.n, r.latency_score.n, r.consistency_score.n,
     r.score_max_throughput.n, r.score_balanced.n, r.score_durability.n}

\* C26: with metrics that are not negative, the three component scores and the
\* three composite scores of every record lie between 0 and 100, also when
\* p99_ms is 0 or less than avg_latency_ms.
C26_ScoresInRange ==
    (pc = "scored" /\ ret.kind = "scores") =>
        \A k \in DOMAIN ret.scored_df :
            \A x \in SixScores(ret.scored_df[k]) : 0 <= x /\ x <= 100 * Quantum

(***************************************************************************)
(* Results that differ in the spelling of acks only                        *)
(***************************************************************************)
Spelled(acks, throughput_mb, avg_latency_ms, p99_ms) ==
    [test_type |-> "producer", scenario |-> "acks",
     configuration |-> << <<"acks", acks>>, <<"batch_size", PyInt(16384)>> >>,
     metrics |-> [throughput_mb |-> throughput_mb, avg_latency_ms |-> avg_latency_ms,
                  p99_ms |-> p99_ms]]
SynonymResults ==
    {Spelled(PyStr("all"), PyFloat(14, 0), PyFloat(7, 0), PyInt(9)),
     Spelled(PyStr("all"), PyFloat(5, 1), PyFloat(3, 0), PyInt(3)),
     Spelled(PyStr("-1"), PyFloat(14, 0), PyFloat(3, 0), PyInt(3)),
     Spelled(PyStr("-1"), PyFloat(7, 0), PyFloat(7, 0), PyInt(13)),
     Spelled(PyInt(1), PyFloat(26, 0), PyFloat(15, 1), PyInt(3)),
     Spelled(PyInt(0), PyFloat(26, 0), PyFloat(3, 0), PyInt(3))}

InitSynonyms ==
    /\ all_results \in UNION {[1..n -> SynonymResults] : n \in 0..MaxRuns}
    /\ log_dir = {}
    /\ log_files = <<>>
    /\ idx = 0
    /\ producer_df = <<>>
    /\ lines = <<>>
    /\ file = [name |-> "", content |-> "", readable |-> FALSE]
    /\ pc = "start"
    /\ ret = None
NextSynonyms == AggregateProducerResults \/ CalculateAllScores \/ CreateRecommendationsSheet
SpecSynonyms == InitSynonyms /\ [][NextSynonyms]_vars

\* the results whose acks is spelled one way
SpelledAs(acks) ==
    {k \in DOMAIN all_results : DictGet(all_results[k].configuration, "acks", PyNone) = acks}
\* the test_count of the group of a key, 0 without such a group
CountOfKey(key) ==
    IF \E g \in DOMAIN ret.groups : ret.groups[g][1] = key
    THEN ret.groups[CHOOSE g \in DOMAIN ret.groups : ret.groups[g][1] = key][2].test_count
    ELSE 0
\* whether the scored rows of some results include that of the durability box
ShownOneOf(ks) == \E k \in ks : ret.sheet.durability = ret.scores.scored_df[k]

\* C27: records that differ only in acks being 'all' or '-1' are aggregated in
\* two groups, one per spelling, while the durability recommendation picks its
\* row among the records of both spellings together.
C27_AcksSynonyms ==
    /\ (pc = "done" /\ ret.kind = "aggregated") =>
          /\ CountOfKey("acks=all|batch_size=16384") = Cardinality(SpelledAs(PyStr("all")))
          /\ CountOfKey("acks=-1|batch_size=16384") = Cardinality(SpelledAs(PyStr("-1")))
          /\ \A g, h \in DOMAIN ret.groups : ret.groups[g][1] = ret.groups[h][1] => g = h
    /\ (pc = "done" /\ ret.kind = "report" /\ ret.scores.kind = "scores") =>
          LET both == SpelledAs(PyStr("all")) \cup SpelledAs(PyStr("-1"))
          IN  /\ both = {} <=> ret.sheet.durability = PyNone
              /\ both # {} =>
                    /\ ShownOneOf(both)
                    /\ \A j \in both :
                          ret.scores.scored_df[j].score_durability.n
                              <= ret.sheet.durability.score_durability.n
C27_Witness ==
    /\ pc = "done"
    /\ ret.kind = "aggregated"
    /\ Len(all_results) = 3
    /\ Cardinality(SpelledAs(PyStr("all"))) = 2
    /\ Cardinality(SpelledAs(PyStr("-1"))) = 1
    /\ Len(ret.groups) = 2
    /\ CountOfKey("acks=all|batch_size=16384") = 2
    /\ CountOfKey("acks=-1|batch_size=16384") = 1

(***************************************************************************)
(* ResultsAggregator.export_to_csv, print_summary; calls made in sequence  *)
(***************************************************************************)
\* one row of the CSV for a producer group, and one for a consumer group
ProducerCsvRow(item) ==
    [test_type |-> "producer", config_key |-> item[1],
     acks |-> DictGet(item[2].configuration, "acks", PyStr("")),
     batch_size |-> DictGet(item[2].configuration, "batch_size", PyStr("")),
     linger_ms |-> DictGet(item[2].configuration, "linger_ms", PyStr("")),
     compression |-> DictGet(item[2].configuration, "compression_type",
                             DictGet(item[2].configuration, "compression", PyStr(""))),
     record_size |-> DictGet(item[2].configuration, "record_size", PyStr("")),
     test_count |-> item[2].test_count,
     throughput_mb_mean |-> item[2].throughput_mb.mean,
     throughput_mb_std |-> item[2].throughput_mb.std,
     latency_ms_mean |-> item[2].avg_latency_ms.mean,
     latency_ms_std |-> item[2].avg_latency_ms.std]
ConsumerCsvRow(item) ==
    [test_type |-> "consumer", config_key |-> item[1],
     fetch_min_bytes |-> DictGet(item[2].configuration, "fetch_min_bytes", PyStr("")),
     max_poll_records |-> DictGet(item[2].configuration, "max_poll_records", PyStr("")),
     test_count |-> item[2].test_count,
     throughput_mb_mean |-> item[2].throughput_mb_sec.mean,
     throughput_mb_std |-> item[2].throughput_mb_sec.std]
CsvRows(summary) ==
    [k \in DOMAIN summary.producer_aggregations |->
         ProducerCsvRow(summary.producer_aggregations[k])]
    \o [k \in DOMAIN summary.consumer_aggregations |->
            ConsumerCsvRow(summary.consumer_aggregations[k])]
\* the file written by df.to_csv, as the rows it holds
ExportToCsv ==
    /\ pc = "start"
    /\ \E now \in Clock :
           ret' = [kind |-> "exported", output_file |-> CsvRows(generate_summary(all_results, now))]
    /\ pc' = "done"
    /\ UNCHANGED <<lines, file, log_dir, log_files, idx, all_results, producer_df>>

\* f"{stats.get('mean', 0):.2f}" raises TypeError for a mean that is None
FormatRaises(best, field) == best # PyNone /\ best[field].mean = PyNone
Printed(summary) ==
    IF \/ FormatRaises(summary.best_configurations.producer_highest_throughput, "throughput_mb")
       \/ FormatRaises(summary.best_configurations.consumer_highest_throughput,
                       "throughput_mb_sec")
    THEN Raised
    ELSE [kind |-> "printed", totals |-> summary.summary, best |-> summary.best_configurations]
PrintSummary ==
    /\ pc = "start"
    /\ \E now \in Clock : ret' = Printed(generate_summary(all_results, now))
    /\ pc' = "done"
    /\ UNCHANGED <<lines, file, log_dir, log_files, idx, all_results, producer_df>>

\* the caller goes on to its next call
CallAgain ==
    /\ pc = "done"
    /\ pc' = "start"
    /\ UNCHANGED <<lines, file, ret, log_dir, log_files, idx, all_results, producer_df>>

FrameResults ==
    SummaryResults
    \cup {Measured(PyStr("all"), PyFloat(5, 1), PyFloat(7, 0), PyInt(9)),
          Measured(PyInt(1), PyFloat(14, 0), PyFloat(3, 0), PyNone)}
InitFrame ==
    /\ all_results \in UNION {[1..n -> FrameResults] : n \in 0..MaxResults}
    /\ log_dir = {}
    /\ log_files = <<>>
    /\ idx = 0
    /\ producer_df = <<>>
    /\ lines = <<>>
    /\ file = [name |-> "", content |-> "", readable |-> FALSE]
    /\ pc = "start"
    /\ ret = None
NextFrame ==
    \/ AggregateProducerResults \/ AggregateConsumerResults
    \/ GenerateSummary \/ ExportToJson \/ ExportToCsv \/ PrintSummary
    \/ CalculateAllScores \/ CreateRecommendationsSheet
    \/ CallAgain
SpecFrame == InitFrame /\ [][NextFrame]_vars

\* the columns of the scores
ScoreColumns ==
    {"throughput_score", "latency_score", "consistency_score",
     "score_max_throughput", "score_balanced", "score_durability"}

\* C28: whatever the sequence of aggregation, summary, export and print calls,
\* all_results stays the same records in the same order with the same
\* configuration and metrics; the scoring sets producer_df to the rows of the
\* producer records and adds its score columns to a copy, not to producer_df.
C28_RecordsNotMutated ==
    [][/\ all_results' = all_results
       /\ producer_df' # producer_df =>
             /\ Len(producer_df') = Len(ProducerRecords)
             /\ \A k \in DOMAIN producer_df' :
                   /\ DOMAIN producer_df'[k] \cap ScoreColumns = {}
                   /\ producer_df'[k].throughput_mb = ProducerRecords[k].metrics.throughput_mb
                   /\ ret'.kind = "scores" => ret'.scored_df[k].row = producer_df'[k]
       /\ pc = "scored" => producer_df' = producer_df]_vars
C28_Witness ==
    /\ pc = "start"
    /\ ret.kind = "report"
    /\ Len(all_results) = 2
    /\ all_results[1].test_type = "consumer"
    /\ Len(producer_df) = 1
    /\ ret.scores.scored_df[1].row = producer_df[1]
    /\ ret.scores.scored_df[1].score_balanced.n > 0

(***************************************************************************)
(* load_all_results called again on the same aggregator and directory      *)
(***************************************************************************)
MaxLoaded == 5
\* the caller calls load_all_results again: the loop of the new call starts over
LoadAgain ==
    /\ pc = "loaded"
    /\ Len(all_results) <= MaxLoaded
    /\ pc' = "glob"
    /\ idx' = 0
    /\ UNCHANGED <<lines, file, ret, log_dir, log_files, all_results, producer_df>>
\* the caller goes on to generate_summary
ThenSummary ==
    /\ pc = "loaded"
    /\ pc' = "start"
    /\ UNCHANGED <<lines, file, ret, log_dir, log_files, idx, all_results, producer_df>>

InitReload ==
    /\ log_dir \in JsonDirectories
    /\ log_files = <<>>
    /\ idx = 0
    /\ producer_df = <<>>
    /\ all_results = <<>>
    /\ lines = <<>>
    /\ file = [name |-> "", content |-> "", readable |-> FALSE]
    /\ pc = "glob"
    /\ ret = None
NextReload ==
    ListJson \/ LoadNextJson \/ ReturnLoaded \/ LoadAgain \/ ThenSummary \/ GenerateSummary
SpecReload == InitReload /\ [][NextReload]_vars

\* the number of results the JSON files of the directory hold
RECURSIVE HeldBy(_)
HeldBy(names) ==
    IF names = {} THEN 0
    ELSE LET name == CHOOSE x \in names : TRUE
         IN  Len(PoolContent(name)) + HeldBy(names \ {name})

\* C29: every call of load_all_results on an unchanged directory returns the
\* number of results the directory's JSON files hold (the length of an array,
\* 1 for an object), and total_results of the summary is that number.
C29_LoadCountIsDirectoryCount ==
    /\ pc = "loaded" => ret.n = HeldBy(JsonNames)
    /\ (pc = "done" /\ ret.kind = "summary") =>
          ret.value.summary.total_results = HeldBy(JsonNames)

(***************************************************************************)
(* Results of both test types, of another type and of none                 *)
(***************************************************************************)
PartitionResults ==
    SummaryResults
    \cup {[test_type |-> "latency", configuration |-> AcksOne,
           metrics |-> [throughput_mb |-> PyFloat(14, 0)]],
          [configuration |-> AcksAll, metrics |-> [throughput_mb_sec |-> PyFloat(14, 0)]]}
InitPartition ==
    /\ all_results \in UNION {[1..n -> PartitionResults] : n \in 0..MaxRuns}
    /\ log_dir = {}
    /\ log_files = <<>>
    /\ idx = 0
    /\ producer_df = <<>>
    /\ lines = <<>>
    /\ file = [name |-> "", content |-> "", readable |-> FALSE]
    /\ pc = "start"
    /\ ret = None
SpecPartition == InitPartition /\ [][NextSummary]_vars

\* the records of a test type, by their place in all_results
RecordsOfType(test_type) ==
    {k \in DOMAIN all_results :
        "test_type" \in DOMAIN all_results[k] /\ all_results[k].test_type = test_type}
\* the groups of an aggregation a record belongs to: those of its key
GroupsOf(agg, k) ==
    {g \in DOMAIN agg : agg[g][1] = config_to_key(all_results[k].configuration)}
RECURSIVE SumOfCounts(_, _)
SumOfCounts(agg, n) == IF n = 0 THEN 0 ELSE SumOfCounts(agg, n - 1) + agg[n][2].test_count
\* the groups of an aggregation partition the records of a test type
Partitions(agg, test_type, results, unique) ==
    /\ results = Cardinality(RecordsOfType(test_type))
    /\ unique = Len(agg)
    /\ \A k \in RecordsOfType(test_type) : Cardinality(GroupsOf(agg, k)) = 1
    /\ \A g \in DOMAIN agg :
          /\ agg[g][2].test_count
                 = Cardinality({k \in RecordsOfType(test_type) : g \in GroupsOf(agg, k)})
          /\ agg[g][2].test_count >= 1
    /\ SumOfCounts(agg, Len(agg)) = results
    /\ unique <= results

\* C30: in every summary the groups partition the records of each test type:
\* every producer record is in exactly one producer group and every consumer
\* record in exactly one consumer group, the test_counts of the producer groups
\* add up to producer_results and those of the consumer groups to
\* consumer_results, unique_producer_configs <= producer_results,
\* unique_consumer_configs <= consumer_results, and producer_results +
\* consumer_results <= total_results.
C30_GroupsPartitionRecords ==
    (pc = "done" /\ ret.kind = "summary") =>
        /\ Partitions(ret.value.producer_aggregations, "producer",
                      ret.value.summary.producer_results,
                      ret.value.summary.unique_producer_configs)
        /\ Partitions(ret.value.consumer_aggregations, "consumer",
                      ret.value.summary.consumer_results,
                      ret.value.summary.unique_consumer_configs)
        /\ ret.value.summary.total_results = Len(all_results)
        /\ ret.value.summary.producer_results + ret.value.summary.consumer_results
               <= ret.value.summary.total_results
C30_Witness ==
    /\ pc = "done"
    /\ ret.kind = "summary"
    /\ ret.value.summary.total_results = 3
    /\ ret.value.summary.producer_results = 2
    /\ ret.value.summary.consumer_results = 0
    /\ ret.value.summary.unique_producer_configs = 1
    /\ ret.value.producer_aggregations[1][2].test_count = 2
    /\ "test_type" \notin DOMAIN all_results[3]

====
